---- MODULE Spec2Model ----
(***************************************************************************)
(* StablePay off-ramp gateway: quote computation, KYC session, transaction *)
(* lifecycle.  Handlers are those of the enhanced route file               *)
(* (src/unnamed/part_002) over the document storage of                     *)
(* src/server/storage-enhanced.ts.                                         *)
(*                                                                         *)
(* Amounts are JavaScript Numbers (IEEE-754 binary64).  A Number is        *)
(* modelled bit-exactly as [neg, m, e] with value (-1)^neg * m * 2^e, m a  *)
(* 53-bit natural held as a little-endian sequence of 13-bit limbs (TLC    *)
(* integers are 32 bits wide).  Stored quote fields are the decimal        *)
(* strings produced by Number.prototype.toString, modelled as [n, k] with  *)
(* value n / 10^k and no trailing zero.                                    *)
(***************************************************************************)
EXTENDS Integers, Sequences, FiniteSets, TLC

(***************************************************************************)
(* Naturals of arbitrary size.  The arithmetic is written as functions:    *)
(* a function is applied to the value of its argument.                     *)
(***************************************************************************)
BASE == 2^13
Big == Seq(Nat)

Trim[a \in Big] ==
  IF a = <<>> THEN a
  ELSE IF a[Len(a)] = 0 THEN Trim[SubSeq(a, 1, Len(a) - 1)] ELSE a

NatToBig[n \in Nat] == IF n = 0 THEN <<>> ELSE <<n % BASE>> \o NatToBig[n \div BASE]

\* a + b + c
AddC[a \in Big, b \in Big, c \in Nat] ==
  IF a = <<>> /\ b = <<>> THEN (IF c = 0 THEN <<>> ELSE <<c>>)
  ELSE IF a = <<>> THEN <<(b[1] + c) % BASE>> \o AddC[a, Tail(b), (b[1] + c) \div BASE]
  ELSE IF b = <<>> THEN <<(a[1] + c) % BASE>> \o AddC[Tail(a), b, (a[1] + c) \div BASE]
  ELSE <<(a[1] + b[1] + c) % BASE>> \o AddC[Tail(a), Tail(b), (a[1] + b[1] + c) \div BASE]

BigAdd[a \in Big, b \in Big] == AddC[a, b, 0]

\* a - b - br, digit by digit
SubB[a \in Big, b \in Big, br \in Nat] ==
  IF a = <<>> THEN <<>>
  ELSE IF b = <<>>
  THEN <<(a[1] - br + BASE) % BASE>> \o SubB[Tail(a), b, IF a[1] - br < 0 THEN 1 ELSE 0]
  ELSE <<(a[1] - b[1] - br + BASE) % BASE>>
         \o SubB[Tail(a), Tail(b), IF a[1] - b[1] - br < 0 THEN 1 ELSE 0]

\* a - b for a >= b
BigSub[a \in Big, b \in Big] == Trim[SubB[a, b, 0]]

\* a * m + c for 0 <= m < BASE
MulS[a \in Big, m \in Nat, c \in Nat] ==
  IF a = <<>> THEN NatToBig[c]
  ELSE <<(a[1] * m + c) % BASE>> \o MulS[Tail(a), m, (a[1] * m + c) \div BASE]

BigMulSmall[a \in Big, m \in Nat] == Trim[MulS[a, m, 0]]

ShiftLimb[a \in Big] == IF a = <<>> THEN a ELSE <<0>> \o a

BigMul[a \in Big, b \in Big] ==
  IF a = <<>> \/ b = <<>> THEN <<>>
  ELSE BigAdd[BigMulSmall[a, b[1]], ShiftLimb[BigMul[a, Tail(b)]]]

CmpFrom[a \in Big, b \in Big, i \in Nat] ==
  IF i = 0 THEN 0
  ELSE IF a[i] < b[i] THEN -1
  ELSE IF a[i] > b[i] THEN 1
  ELSE CmpFrom[a, b, i - 1]

BigCmp[a \in Big, b \in Big] ==
  IF Len(a) < Len(b) THEN -1
  ELSE IF Len(a) > Len(b) THEN 1
  ELSE CmpFrom[a, b, Len(a)]

BigLess(a, b) == BigCmp[a, b] < 0
BigLeq(a, b) == BigCmp[a, b] <= 0

\* a quotient and a remainder
QuotRem == [q : Big, r : Nat]

DivStep[hi \in QuotRem, x \in Nat, d \in Nat] ==
  [q |-> <<(hi.r * BASE + x) \div d>> \o hi.q, r |-> (hi.r * BASE + x) % d]

\* quotient (untrimmed) and remainder of a by d, 0 < d < 2^17
DivS[a \in Big, d \in Nat] ==
  IF a = <<>> THEN [q |-> <<>>, r |-> 0]
  ELSE DivStep[DivS[Tail(a), d], a[1], d]

BigDivSmall[a \in Big, d \in Nat] == Trim[DivS[a, d].q]
BigModSmall[a \in Big, d \in Nat] == DivS[a, d].r

Zeros(n) == [i \in 1..n |-> 0]

\* a * 2^k
BigShl[a \in Big, k \in Nat] ==
  IF a = <<>> THEN a ELSE Zeros(k \div 13) \o BigMulSmall[a, 2^(k % 13)]

\* floor(a / 2^k)
BigShr[a \in Big, k \in Nat] ==
  IF Len(a) <= k \div 13 THEN <<>>
  ELSE BigDivSmall[SubSeq(a, (k \div 13) + 1, Len(a)), 2^(k % 13)]

BitLenSmall[n \in Nat] == IF n = 0 THEN 0 ELSE 1 + BitLenSmall[n \div 2]

BitLen[a \in Big] == IF a = <<>> THEN 0 ELSE 13 * (Len(a) - 1) + BitLenSmall[a[Len(a)]]

IsOdd(a) == a # <<>> /\ a[1] % 2 = 1

Pow10[k \in Nat] == IF k = 0 THEN <<1>> ELSE BigMulSmall[Pow10[k - 1], 10]

\* q or q + 1, for q = floor(p / 2^s): to nearest, ties to even
RoundUp[p \in Big, q \in Big, s \in Nat] ==
  IF BigCmp[BigSub[p, BigShl[q, s]], BigShl[<<1>>, s - 1]] > 0
       \/ (BigSub[p, BigShl[q, s]] = BigShl[<<1>>, s - 1] /\ IsOdd(q))
  THEN BigAdd[q, <<1>>] ELSE q

\* p / 2^s rounded to nearest, ties to even
ShrNearestEven[p \in Big, s \in Nat] == IF s = 0 THEN p ELSE RoundUp[p, BigShr[p, s], s]

(***************************************************************************)
(* IEEE-754 binary64 (JavaScript Number), round to nearest, ties to even.  *)
(* Exponent range is not limited: the amounts of the model stay far from   *)
(* overflow and from the subnormal range.                                  *)
(***************************************************************************)
Dbl == [neg : BOOLEAN, m : Big, e : Int]
DblZero == [neg |-> FALSE, m |-> <<>>, e |-> 0]

\* q is p rounded to 53 bits after dropping s bits, or one bit more on carry-out
Renorm[neg \in BOOLEAN, q \in Big, e \in Int] ==
  IF BitLen[q] = 54 THEN [neg |-> neg, m |-> BigShr[q, 1], e |-> e + 1]
  ELSE [neg |-> neg, m |-> q, e |-> e]

RoundBits[neg \in BOOLEAN, p \in Big, e \in Int, n \in Nat] ==
  IF n <= 53 THEN [neg |-> neg, m |-> BigShl[p, 53 - n], e |-> e - (53 - n)]
  ELSE Renorm[neg, ShrNearestEven[p, n - 53], e + (n - 53)]

\* the Number nearest to (-1)^neg * p * 2^e
RoundToDouble[neg \in BOOLEAN, p \in Big, e \in Int] ==
  IF p = <<>> THEN DblZero ELSE RoundBits[neg, p, e, BitLen[p]]

\* x * y
DblMul[x \in Dbl, y \in Dbl] == RoundToDouble[x.neg # y.neg, BigMul[x.m, y.m], x.e + y.e]

MinExp[x \in Dbl, y \in Dbl] ==
  IF x.m = <<>> THEN y.e
  ELSE IF y.m = <<>> THEN x.e
  ELSE IF x.e < y.e THEN x.e ELSE y.e

\* a * 2^e - b * 2^e
SubAligned[a \in Big, b \in Big, e \in Int] ==
  IF BigLeq(b, a) THEN RoundToDouble[FALSE, BigSub[a, b], e]
  ELSE RoundToDouble[TRUE, BigSub[b, a], e]

AlignSub[x \in Dbl, y \in Dbl, e \in Int] ==
  SubAligned[BigShl[x.m, x.e - e], BigShl[y.m, y.e - e], e]

AlignAdd[x \in Dbl, y \in Dbl, e \in Int] ==
  RoundToDouble[FALSE, BigAdd[BigShl[x.m, x.e - e], BigShl[y.m, y.e - e]], e]

\* x - y and x + y for x, y >= 0
DblSubPos[x \in Dbl, y \in Dbl] == AlignSub[x, y, MinExp[x, y]]
DblAddPos[x \in Dbl, y \in Dbl] == AlignAdd[x, y, MinExp[x, y]]

Abs[x \in Dbl] == [x EXCEPT !.neg = FALSE]
Negate[x \in Dbl] == IF x.m = <<>> THEN x ELSE [x EXCEPT !.neg = ~x.neg]

\* x - y
DblSub[x \in Dbl, y \in Dbl] ==
  IF ~x.neg /\ ~y.neg THEN DblSubPos[x, y]
  ELSE IF x.neg /\ y.neg THEN DblSubPos[Abs[y], Abs[x]]
  ELSE IF x.neg THEN Negate[DblAddPos[Abs[x], Abs[y]]]
  ELSE DblAddPos[x, Abs[y]]

IsNegative[x \in Dbl] == x.neg /\ x.m # <<>>
DblLess(x, y) == IsNegative[DblSub[x, y]]

(***************************************************************************)
(* Decimal strings: [n, k] is n / 10^k, written without trailing zeros.    *)
(***************************************************************************)
Decimal == [n : Big, k : Nat]

DecNorm[d \in Decimal] ==
  IF d.k > 0 /\ BigModSmall[d.n, 10] = 0
  THEN DecNorm[[n |-> BigDivSmall[d.n, 10], k |-> d.k - 1]]
  ELSE d

Dec(n, k) == DecNorm[[n |-> NatToBig[n], k |-> k]]

MaxK[a \in Decimal, b \in Decimal] == IF a.k > b.k THEN a.k ELSE b.k

\* a.n and b.n brought to k fractional digits
Scaled[a \in Decimal, k \in Nat] == BigMul[a.n, Pow10[k - a.k]]

DecMul[a \in Decimal, b \in Decimal] == DecNorm[[n |-> BigMul[a.n, b.n], k |-> a.k + b.k]]

DecSubAt[a \in Decimal, b \in Decimal, k \in Nat] ==
  DecNorm[[n |-> BigSub[Scaled[a, k], Scaled[b, k]], k |-> k]]

DecLessAt[a \in Decimal, b \in Decimal, k \in Nat] == BigLess(Scaled[a, k], Scaled[b, k])

\* a - b for a >= b
DecSub[a \in Decimal, b \in Decimal] == DecSubAt[a, b, MaxK[a, b]]
DecLess[a \in Decimal, b \in Decimal] == DecLessAt[a, b, MaxK[a, b]]
DecLeq[a \in Decimal, b \in Decimal] == ~DecLess[b, a]

\* quotient with a sticky lowest bit
Sticky[qr \in QuotRem] ==
  BigAdd[BigShl[Trim[qr.q], 1], IF qr.r = 0 THEN <<>> ELSE <<1>>]

\* the Number nearest to n / 10^k (k <= 5)
DecToDbl[d \in Decimal] == RoundToDouble[FALSE, Sticky[DivS[BigShl[d.n, 70], 10^d.k]], -71]

\* parseFloat of a decimal string; also a numeric literal of the source
parseFloat(d) == DecToDbl[d]

\* the integer nearest to |x| * 10^k
NearestScaled[x \in Dbl, k \in Nat] ==
  IF x.e >= 0 THEN BigShl[BigMul[x.m, Pow10[k]], x.e]
  ELSE ShrNearestEven[BigMul[x.m, Pow10[k]], -x.e]

\* is lo * 10^k * 2^g <(=) n * 2^(f+sc) and n * 2^(f+1) <(=) hi * 10^k * 2^g ?
Within[lo \in Big, hi \in Big, n \in Big, k \in Nat, f \in Nat, g \in Nat, sc \in Nat, strict \in BOOLEAN] ==
  IF strict
  THEN /\ BigLess(BigShl[BigMul[lo, Pow10[k]], g], BigShl[n, f + sc])
       /\ BigLess(BigShl[n, f + 1], BigShl[BigMul[hi, Pow10[k]], g])
  ELSE /\ BigLeq(BigShl[BigMul[lo, Pow10[k]], g], BigShl[n, f + sc])
       /\ BigLeq(BigShl[n, f + 1], BigShl[BigMul[hi, Pow10[k]], g])

\* does n / 10^k read back as the Number x (x > 0)?  It does inside the
\* rounding interval (m - 1/2, m + 1/2) * 2^e, whose lower half is half as
\* wide at a power of two, and on its ends when m is even.
ReadsBackAs[n \in Big, k \in Nat, x \in Dbl] ==
  Within[BigSub[BigShl[x.m, IF x.m = BigShl[<<1>>, 52] THEN 2 ELSE 1], <<1>>],
         BigAdd[BigShl[x.m, 1], <<1>>],
         n, k,
         IF x.e < 0 THEN -x.e ELSE 0,
         IF x.e < 0 THEN 0 ELSE x.e,
         IF x.m = BigShl[<<1>>, 52] THEN 2 ELSE 1,
         IsOdd(x.m)]

ShortestTry[x \in Dbl, k \in Nat, n \in Big] ==
  IF k >= 25 \/ ReadsBackAs[n, k, x] THEN [n |-> n, k |-> k]
  ELSE ShortestTry[x, k + 1, NearestScaled[x, k + 1]]

NumberToString[x \in Dbl] ==
  IF x.m = <<>> THEN [n |-> <<>>, k |-> 0] ELSE DecNorm[ShortestTry[x, 0, NearestScaled[x, 0]]]

\* Number.prototype.toString of a finite x >= 0: the shortest decimal that
\* reads back as x
toString(x) == NumberToString[x]

(***************************************************************************)
(* Bounds of the model                                                     *)
(***************************************************************************)
MaxSessions == 1
MaxQuotes == 1
MaxKyc == 1
MaxTx == 2
MaxPayouts == 2
MaxInflight == 2
MaxTime == 31

(***************************************************************************)
(* Program constants                                                       *)
(***************************************************************************)
SESSION_TTL_MIN == 30
QUOTE_TTL_MIN == 15
\* the clock advances to just past one session lifetime
TickStep == SESSION_TTL_MIN + 1

None == <<>>
Some(x) == <<x>>

\* request values
AmountsUsd == {Dec(100, 0)}
LiveRates == {Dec(8365, 2)}
Networks == {"polygon"}
Names == {"ASHA RAO"}
Deposits == {[amount |-> 100, txHash |-> "0xaa"], [amount |-> 50, txHash |-> "0xbb"]}
PayoutAmounts == {8212}
\* the deposit the interleaved requests report
ConcDeposits == {[amount |-> 100, txHash |-> "0xaa"]}

\* request values of the fee-calculator specification
FeeAmounts ==
  {Dec(1, 0), Dec(3, 0), Dec(7, 0), Dec(10, 0), Dec(50, 0), Dec(100, 0), Dec(250, 0),
   Dec(999, 0), Dec(1000, 0), Dec(2500, 0), Dec(5, 1), Dec(1234, 2), Dec(9999, 2)}
FeeRates == {Dec(8365, 2), Dec(825, 1), Dec(8412, 2)}

(***************************************************************************)
(* Rate provider and fee calculator                                        *)
(***************************************************************************)
FALLBACK_RATE == Dec(834, 1)
TDS_RATE == Dec(1, 2)
PLATFORM_FEE_RATE == Dec(7, 3)
GST_RATE == Dec(18, 2)

\* what the exchange-rate call can do: no API key configured, a success payload
\* with an INR rate, a payload without one, or a thrown error
FxOutcomesOf(rates) ==
  {[kind |-> "no_key", inr |-> FALLBACK_RATE], [kind |-> "not_success", inr |-> FALLBACK_RATE],
   [kind |-> "throws", inr |-> FALLBACK_RATE]}
  \cup {[kind |-> "success", inr |-> r] : r \in rates}

FxOutcomes == FxOutcomesOf(LiveRates)
FeeFxOutcomes == FxOutcomesOf(FeeRates)

\* the rate provider falling back to another rate than 83.40
getUsdInrRate_OtherFallback(fx) ==
  IF fx.kind = "success" THEN parseFloat(fx.inr) ELSE parseFloat(Dec(83, 0))

getUsdInrRate(fx) ==
  IF fx.kind = "success" THEN parseFloat(fx.inr) ELSE parseFloat(FALLBACK_RATE)

generateDepositAddress(network) ==
  IF network = "polygon" THEN [address |-> "0x8e12", minConfirmations |-> 12]
  ELSE IF network = "ethereum" THEN [address |-> "0x1234", minConfirmations |-> 12]
  ELSE IF network = "bsc" THEN [address |-> "0xabcd", minConfirmations |-> 15]
  ELSE IF network = "solana" THEN [address |-> "9WzD", minConfirmations |-> 1]
  ELSE [address |-> "0x8e12", minConfirmations |-> 12]

netInrOf(grossInr, tds, platformFee, gst) ==
  DblSub[DblSub[DblSub[grossInr, tds], platformFee], gst]

calculateQuote(amountUsd, fxRate, network) ==
  LET grossInr    == DblMul[amountUsd, fxRate]
      tds         == DblMul[grossInr, parseFloat(TDS_RATE)]
      platformFee == DblMul[grossInr, parseFloat(PLATFORM_FEE_RATE)]
      gst         == DblMul[platformFee, parseFloat(GST_RATE)]
      netInr      == netInrOf(grossInr, tds, platformFee, gst)
      dep         == generateDepositAddress(network)
  IN  [fxRate |-> fxRate, grossInr |-> grossInr, tds |-> tds,
       platformFee |-> platformFee, gst |-> gst, netInr |-> netInr,
       depositAddress |-> dep.address, minConfirmations |-> dep.minConfirmations]

QuoteData ==
  [fxRate : Dbl, grossInr : Dbl, tds : Dbl, platformFee : Dbl, gst : Dbl, netInr : Dbl,
   depositAddress : STRING, minConfirmations : Nat]

\* the financial fields of the record GET /api/v1/quotes hands to
\* storage.createQuote: each Number through toString()
quoteStrings[quoteData \in QuoteData] ==
  [fxRate |-> toString(quoteData.fxRate),
   grossINR |-> toString(quoteData.grossInr),
   commission |-> toString(quoteData.platformFee),
   gstAmount |-> toString(quoteData.gst),
   tdsAmount |-> toString(quoteData.tds),
   estimatedINR |-> toString(quoteData.netInr),
   depositAddress |-> quoteData.depositAddress,
   minConfirmations |-> quoteData.minConfirmations]

\* the quote record GET /api/v1/quotes hands to storage.createQuote
quoteInsert(sessionId, amountUsd, fx, network, t) ==
  [sessionId |-> sessionId, network |-> network,
   amount |-> toString(parseFloat(amountUsd)),
   expiresAt |-> t + QUOTE_TTL_MIN]
  @@ quoteStrings[calculateQuote(parseFloat(amountUsd), getUsdInrRate(fx), network)]

\* the computation depends on the request values only: evaluated once per value
QuoteInserts ==
  [a \in AmountsUsd \cup FeeAmounts, fx \in FxOutcomes \cup FeeFxOutcomes, n \in Networks |->
     quoteInsert(0, a, fx, n, 0)]

(***************************************************************************)
(* KYC provider                                                            *)
(***************************************************************************)
Field(rec, name) == IF name \in DOMAIN rec THEN rec[name] ELSE None

\* what a Cashfree call can do: no credentials configured, a 2xx JSON answer
\* (with or without ref_id / name), a non-2xx answer, a body that is not JSON,
\* a network error
CashfreeVerified ==
  [kind |-> "ok",
   data |-> [status |-> Some("VALID"), ref_id |-> Some("ref_1"), name |-> Some("ASHA RAO")]]
CashfreeAnswers == {[kind |-> "ok", data |-> [status |-> Some("VALID")]], CashfreeVerified}
CashfreeOutcomes ==
  {[kind |-> "no_credentials"], [kind |-> "http_error"], [kind |-> "not_json"],
   [kind |-> "network_error"]} \cup CashfreeAnswers

\* a gateway call that reports a non-2xx answer as a success
callCashfreeKycApi_ErrorsSucceed(verificationType, cf) ==
  IF cf.kind \in {"no_credentials", "http_error"}
  THEN [threw |-> FALSE, status |-> "SUCCESS", data |-> <<>>]
  ELSE IF cf.kind = "ok"
  THEN [threw |-> FALSE, status |-> "SUCCESS", data |-> cf.data]
  ELSE [threw |-> TRUE, status |-> "", data |-> <<>>]

callCashfreeKycApi(verificationType, cf) ==
  IF cf.kind = "no_credentials"
  THEN [threw |-> FALSE, status |-> "SUCCESS",
        data |-> [message |-> Some("Mock response due to missing credentials"),
                  verificationType |-> Some(verificationType)]]
  ELSE IF cf.kind = "ok"
  THEN [threw |-> FALSE, status |-> "SUCCESS", data |-> cf.data]
  ELSE [threw |-> TRUE, status |-> "", data |-> <<>>]

(***************************************************************************)
(* State                                                                   *)
(***************************************************************************)
VARIABLES
  now,           \* wall clock, minutes
  sessions,      \* collection 'sessions', by sessionId
  quotes,        \* collection 'quotes', by quoteReference
  kycSessions,   \* collection 'kycSessions', by sessionId
  transactions,  \* collection 'transactions', by transactionId
  utrs,          \* settlement references generated so far: utrs[i] is the transaction of UTR i
  webhooks,      \* webhook deliveries attempted so far
  webhookEvents, \* collection 'webhookEvents', by eventId
  resp,          \* the response of the latest request
  inflight       \* deposit and payout requests suspended at an await, by request slot

vars ==
  <<now, sessions, quotes, kycSessions, transactions, utrs, webhooks, webhookEvents, resp, inflight>>

Reply(op, code, error) == [op |-> op, code |-> code, error |-> error]

SessId(i) == <<"sess", i>>
QuoteRef(i) == <<"quote", i>>
KycId(i) == <<"kyc", i>>
TxId(i) == <<"txn", i>>

SessionIds == {SessId(i) : i \in 1..MaxSessions}
QuoteRefs == {QuoteRef(i) : i \in 1..MaxQuotes}
KycIds == {KycId(i) : i \in 1..MaxKyc}
TxIds == {TxId(i) : i \in 1..MaxTx}

Requests == 1..MaxInflight

Init ==
  /\ now = 0
  /\ sessions = <<>>
  /\ quotes = <<>>
  /\ kycSessions = <<>>
  /\ transactions = <<>>
  /\ utrs = <<>>
  /\ webhooks = <<>>
  /\ webhookEvents = <<>>
  /\ resp = Reply("none", 0, "")
  /\ inflight = [r \in Requests |-> None]

NoReply == Reply("none", 0, "")

\* requests are sent one at a time: the client reads a response before it
\* sends the next request
Idle == resp = NoReply

Respond ==
  /\ ~Idle
  /\ resp' = NoReply
  /\ UNCHANGED <<webhookEvents, inflight, now, sessions, quotes, kycSessions, transactions, utrs, webhooks>>

Tick ==
  /\ Idle
  /\ now + TickStep <= MaxTime
  /\ now' = now + TickStep
  /\ UNCHANGED <<webhookEvents, inflight, sessions, quotes, kycSessions, transactions, utrs, webhooks, resp>>

(***************************************************************************)
(* Storage (EnhancedDatabaseStorage).  Generated ids are unique: the next  *)
(* unused one.                                                             *)
(***************************************************************************)
getSessionById(id) == IF id \in DOMAIN sessions THEN Some(sessions[id]) ELSE None
getQuoteByReference(id) == IF id \in DOMAIN quotes THEN Some(quotes[id]) ELSE None
getKycSessionById(id) == IF id \in DOMAIN kycSessions THEN Some(kycSessions[id]) ELSE None
getTransactionById(id) == IF id \in DOMAIN transactions THEN Some(transactions[id]) ELSE None

NextSessionId == SessId(Cardinality(DOMAIN sessions) + 1)
NextQuoteRef == QuoteRef(Cardinality(DOMAIN quotes) + 1)
NextKycId == KycId(Cardinality(DOMAIN kycSessions) + 1)
NextTxId == TxId(Cardinality(DOMAIN transactions) + 1)

createSession(insertSession) ==
  sessions @@ (insertSession.sessionId :> (insertSession @@ [status |-> "active"]))

createQuote(quoteData) ==
  quotes @@ (NextQuoteRef :>
             (quoteData @@ [quoteReference |-> NextQuoteRef, status |-> "active"]))

createKycSession(insertSession) ==
  kycSessions @@ (NextKycId :>
    (insertSession @@
     [sessionId |-> NextKycId, status |-> "initiated",
      aadhaarVerified |-> FALSE, panVerified |-> FALSE, faceVerified |-> FALSE,
      upiVerified |-> FALSE, bankVerified |-> FALSE, nameMatchVerified |-> FALSE,
      aadhaarName |-> None, panName |-> None, upiName |-> None, bankName |-> None,
      verifiedName |-> None, verificationData |-> <<>>]))

createTransaction(transactionData) ==
  transactions @@ (NextTxId :>
    (transactionData @@ [transactionId |-> NextTxId, status |-> "pending_deposit"]))

\* findOneAndUpdate({transactionId}, {$set: updates}): no document, no change
updateTransaction(id, updates) ==
  IF id \in DOMAIN transactions
  THEN [transactions EXCEPT ![id] = updates @@ transactions[id]]
  ELSE transactions

updateKycSession(id, updates) ==
  IF id \in DOMAIN kycSessions
  THEN [kycSessions EXCEPT ![id] = updates @@ kycSessions[id]]
  ELSE kycSessions

(***************************************************************************)
(* Partners and authentication                                             *)
(***************************************************************************)
\* collection 'partners': two active partners and one that is not active; no
\* handler behind the authentication changes it
Partners ==
  {[partnerId |-> "partner_1", apiKey |-> "pk_live_1", status |-> "active"],
   [partnerId |-> "partner_2", apiKey |-> "pk_live_2", status |-> "active"],
   [partnerId |-> "partner_3", apiKey |-> "pk_live_3", status |-> "suspended"]}

getPartnerByApiKey(apiKey) ==
  IF \E p \in Partners : p.apiKey = apiKey
  THEN Some(CHOOSE p \in Partners : p.apiKey = apiKey)
  ELSE None

\* the partner of the requests of the one-partner specifications
Partner1 == CHOOSE p \in Partners : p.partnerId = "partner_1"

\* an Authorization header: absent, or a scheme prefix of seven characters and
\* the rest of the value
AuthHeaders ==
  {None, Some(<<"Basic  ", "pk_live_1">>)} \cup
  {Some(<<"Bearer ", k>>) : k \in {"pk_live_1", "pk_live_2", "pk_live_3", "pk_live_9", ""}}

\* (req as any).partner of a request whose header passed the middleware
reqPartner(authHeader) == getPartnerByApiKey(authHeader[1][2])[1]

\* the middleware without its test of the partner's status
authenticateApiKey_NoStatusCheck(authHeader, next) ==
  IF authHeader = None \/ authHeader[1][1] # "Bearer "
  THEN /\ Idle
       /\ resp' = Reply("auth", 401, "Missing or invalid authorization header")
       /\ UNCHANGED <<webhookEvents, inflight, now, sessions, quotes, kycSessions, transactions,
                      utrs, webhooks>>
  ELSE IF getPartnerByApiKey(authHeader[1][2]) = None
  THEN /\ Idle
       /\ resp' = Reply("auth", 401, "Invalid or inactive API key")
       /\ UNCHANGED <<webhookEvents, inflight, now, sessions, quotes, kycSessions, transactions,
                      utrs, webhooks>>
  ELSE next

\* authenticateApiKey: answers 401 itself or hands the request to the route
authenticateApiKey(authHeader, next) ==
  IF authHeader = None \/ authHeader[1][1] # "Bearer "
  THEN /\ Idle
       /\ resp' = Reply("auth", 401, "Missing or invalid authorization header")
       /\ UNCHANGED <<webhookEvents, inflight, now, sessions, quotes, kycSessions, transactions,
                      utrs, webhooks>>
  ELSE IF \/ getPartnerByApiKey(authHeader[1][2]) = None
          \/ getPartnerByApiKey(authHeader[1][2])[1].status # "active"
  THEN /\ Idle
       /\ resp' = Reply("auth", 401, "Invalid or inactive API key")
       /\ UNCHANGED <<webhookEvents, inflight, now, sessions, quotes, kycSessions, transactions,
                      utrs, webhooks>>
  ELSE next

(***************************************************************************)
(* Handlers                                                                *)
(***************************************************************************)
\* POST /api/v1/session/create, for the partner the middleware found
SessionCreateAs(partner, callbackUrl) ==
  /\ Idle
  /\ IF callbackUrl = None
     THEN /\ resp' = Reply("session_create", 400, "callbackUrl is required")
          /\ UNCHANGED sessions
     ELSE /\ Cardinality(DOMAIN sessions) < MaxSessions
          /\ sessions' = createSession([sessionId |-> NextSessionId,
                                        partnerId |-> partner.partnerId,
                                        callbackUrl |-> callbackUrl[1],
                                        expiresAt |-> now + SESSION_TTL_MIN])
          /\ resp' = Reply("session_create", 200, "")
  /\ UNCHANGED <<webhookEvents, inflight, now, quotes, kycSessions, transactions, utrs, webhooks>>

\* POST /api/v1/session/create
SessionCreate(callbackUrl) == SessionCreateAs(Partner1, callbackUrl)

\* GET /api/v1/quotes
GetQuotes(sessionId, amountUsd, network, fx) ==
  /\ Idle
  /\ LET session == getSessionById(sessionId)
     IN  IF amountUsd = None
         THEN /\ resp' = Reply("quotes", 400, "sessionId, asset, network, and amountUsd are required")
              /\ UNCHANGED quotes
         ELSE IF session = None \/ session[1].status # "active"
         THEN /\ resp' = Reply("quotes", 400, "Invalid or inactive session")
              /\ UNCHANGED quotes
         ELSE /\ Cardinality(DOMAIN quotes) < MaxQuotes
              /\ quotes' = createQuote([QuoteInserts[amountUsd[1], fx, network]
                                          EXCEPT !.sessionId = sessionId,
                                                 !.expiresAt = now + QUOTE_TTL_MIN])
              /\ resp' = Reply("quotes", 200, "")
  /\ UNCHANGED <<webhookEvents, inflight, now, sessions, kycSessions, transactions, utrs, webhooks>>

\* POST /api/v1/kyc/session/create, for the partner the middleware found
KycSessionCreateAs(partner, sessionId, userId) ==
  /\ Idle
  /\ LET session == getSessionById(sessionId)
     IN  IF userId = None
         THEN /\ resp' = Reply("kyc_session_create", 400,
                               "sessionId, userId, documentType, and documentNumber are required")
              /\ UNCHANGED kycSessions
         ELSE IF session = None \/ session[1].status # "active"
         THEN /\ resp' = Reply("kyc_session_create", 400, "Invalid or inactive session")
              /\ UNCHANGED kycSessions
         ELSE /\ Cardinality(DOMAIN kycSessions) < MaxKyc
              /\ kycSessions' = createKycSession([partnerId |-> partner.partnerId,
                                                  userId |-> userId[1]])
              /\ resp' = Reply("kyc_session_create", 200, "")
  /\ UNCHANGED <<webhookEvents, inflight, now, sessions, quotes, transactions, utrs, webhooks>>

\* POST /api/v1/kyc/session/create
KycSessionCreate(sessionId, userId) == KycSessionCreateAs(Partner1, sessionId, userId)

\* POST /api/v1/kyc/aadhaar/generate-otp
AadhaarGenerateOtp(sessionId, aadhaarNumber, cf) ==
  /\ Idle
  /\ LET session   == getKycSessionById(sessionId)
         otpResult == callCashfreeKycApi("aadhaar-generate-otp", cf)
     IN  IF aadhaarNumber = None
         THEN /\ resp' = Reply("aadhaar_generate_otp", 400, "sessionId and aadhaarNumber are required")
              /\ UNCHANGED kycSessions
         ELSE IF session = None
         THEN /\ resp' = Reply("aadhaar_generate_otp", 404, "KYC session not found")
              /\ UNCHANGED kycSessions
         ELSE IF otpResult.threw
         THEN /\ resp' = Reply("aadhaar_generate_otp", 500, "OTP generation failed")
              /\ UNCHANGED kycSessions
         ELSE /\ kycSessions' = updateKycSession(sessionId,
                  [verificationData |->
                     [aadhaarRefId |-> Field(otpResult.data, "ref_id"),
                      aadhaarNumber |-> aadhaarNumber] @@ session[1].verificationData])
              /\ resp' = Reply("aadhaar_generate_otp", 200, "")
  /\ UNCHANGED <<webhookEvents, inflight, now, sessions, quotes, transactions, utrs, webhooks>>

\* a || b on optional strings
OrElse(a, b) == IF a # None THEN a ELSE b

\* POST /api/v1/kyc/aadhaar-okyc
AadhaarOkyc(sessionId, aadhaarNumber, name, cf) ==
  /\ Idle
  /\ LET session == getKycSessionById(sessionId)
         result  == callCashfreeKycApi("aadhaar-submit-otp", cf)
     IN  IF aadhaarNumber = None
         THEN /\ resp' = Reply("aadhaar_okyc", 400, "sessionId, aadhaarNumber, and otp are required")
              /\ UNCHANGED kycSessions
         ELSE IF session = None
         THEN /\ resp' = Reply("aadhaar_okyc", 404, "KYC session not found")
              /\ UNCHANGED kycSessions
         ELSE IF Field(session[1].verificationData, "aadhaarRefId") = None
         THEN /\ resp' = Reply("aadhaar_okyc", 400,
                               "No Aadhaar reference ID found. Please generate OTP first.")
              /\ UNCHANGED kycSessions
         ELSE IF result.threw
         THEN /\ resp' = Reply("aadhaar_okyc", 500, "Aadhaar verification failed")
              /\ UNCHANGED kycSessions
         ELSE /\ kycSessions' = updateKycSession(sessionId,
                  [status |-> "completed", aadhaarVerified |-> TRUE,
                   aadhaarName |-> OrElse(Field(result.data, "name"), name),
                   verifiedName |-> OrElse(Field(result.data, "name"), name),
                   verificationData |-> result.data])
              /\ resp' = Reply("aadhaar_okyc", 200, "")
  /\ UNCHANGED <<webhookEvents, inflight, now, sessions, quotes, transactions, utrs, webhooks>>

\* the creation handler without its quote-expiry check
TransactionCreate_NoExpiryCheck(sessionId, quoteId, kycSessionId, network) ==
  /\ Idle
  /\ LET session    == getSessionById(sessionId)
         quote      == getQuoteByReference(quoteId)
         kycSession == getKycSessionById(kycSessionId)
     IN  IF network = None
         THEN /\ resp' = Reply("transaction_create", 400,
                               "sessionId, quoteId, kycSessionId, asset, and network are required")
              /\ UNCHANGED transactions
         ELSE IF session = None \/ quote = None \/ kycSession = None
         THEN /\ resp' = Reply("transaction_create", 400, "Invalid session, quote, or KYC session")
              /\ UNCHANGED transactions
         ELSE IF kycSession[1].status # "completed"
         THEN /\ resp' = Reply("transaction_create", 400, "KYC not completed")
              /\ UNCHANGED transactions
         ELSE /\ Cardinality(DOMAIN transactions) < MaxTx
              /\ transactions' = createTransaction(
                   [sessionId |-> session[1].sessionId, quoteReference |-> quoteId,
                    userId |-> kycSession[1].userId, expectedAmount |-> quote[1].amount,
                    network |-> network[1], depositAddress |-> quote[1].depositAddress,
                    expiresAt |-> quote[1].expiresAt])
              /\ resp' = Reply("transaction_create", 200, "")
  /\ UNCHANGED <<webhookEvents, inflight, now, sessions, quotes, kycSessions, utrs, webhooks>>

\* the creation handler without its KYC-status check
TransactionCreate_NoKycCheck(sessionId, quoteId, kycSessionId, network) ==
  /\ Idle
  /\ LET session    == getSessionById(sessionId)
         quote      == getQuoteByReference(quoteId)
         kycSession == getKycSessionById(kycSessionId)
     IN  IF network = None
         THEN /\ resp' = Reply("transaction_create", 400,
                               "sessionId, quoteId, kycSessionId, asset, and network are required")
              /\ UNCHANGED transactions
         ELSE IF session = None \/ quote = None \/ kycSession = None
         THEN /\ resp' = Reply("transaction_create", 400, "Invalid session, quote, or KYC session")
              /\ UNCHANGED transactions
         ELSE IF now > quote[1].expiresAt
         THEN /\ resp' = Reply("transaction_create", 400, "Quote has expired")
              /\ UNCHANGED transactions
         ELSE /\ Cardinality(DOMAIN transactions) < MaxTx
              /\ transactions' = createTransaction(
                   [sessionId |-> session[1].sessionId, quoteReference |-> quoteId,
                    userId |-> kycSession[1].userId, expectedAmount |-> quote[1].amount,
                    network |-> network[1], depositAddress |-> quote[1].depositAddress,
                    expiresAt |-> quote[1].expiresAt])
              /\ resp' = Reply("transaction_create", 200, "")
  /\ UNCHANGED <<webhookEvents, inflight, now, sessions, quotes, kycSessions, utrs, webhooks>>

\* POST /api/v1/transaction/create
TransactionCreate(sessionId, quoteId, kycSessionId, network) ==
  /\ Idle
  /\ LET session    == getSessionById(sessionId)
         quote      == getQuoteByReference(quoteId)
         kycSession == getKycSessionById(kycSessionId)
     IN  IF network = None
         THEN /\ resp' = Reply("transaction_create", 400,
                               "sessionId, quoteId, kycSessionId, asset, and network are required")
              /\ UNCHANGED transactions
         ELSE IF session = None \/ quote = None \/ kycSession = None
         THEN /\ resp' = Reply("transaction_create", 400, "Invalid session, quote, or KYC session")
              /\ UNCHANGED transactions
         ELSE IF kycSession[1].status # "completed"
         THEN /\ resp' = Reply("transaction_create", 400, "KYC not completed")
              /\ UNCHANGED transactions
         ELSE IF now > quote[1].expiresAt
         THEN /\ resp' = Reply("transaction_create", 400, "Quote has expired")
              /\ UNCHANGED transactions
         ELSE /\ Cardinality(DOMAIN transactions) < MaxTx
              /\ transactions' = createTransaction(
                   [sessionId |-> session[1].sessionId, quoteReference |-> quoteId,
                    userId |-> kycSession[1].userId, expectedAmount |-> quote[1].amount,
                    network |-> network[1], depositAddress |-> quote[1].depositAddress,
                    expiresAt |-> quote[1].expiresAt])
              /\ resp' = Reply("transaction_create", 200, "")
  /\ UNCHANGED <<webhookEvents, inflight, now, sessions, quotes, kycSessions, utrs, webhooks>>

\* what the partner's callback endpoint can do with a webhook POST
WebhookOutcomes == {"2xx", "non_2xx", "network_error"}

\* JSON.stringify of a webhook payload: the keys in insertion order, each
\* followed by its value
stringify(payload) ==
  <<"{", "event", payload.event, "sessionId", payload.sessionId,
    "transactionId", payload.transactionId, "}">>

\* JSON.parse of such a body (express.json on the receiving side)
parse(body) == [event |-> body[3], sessionId |-> body[5], transactionId |-> body[7]]

\* a run of literal characters inside a header value
Lit(text) == [lit |-> text]

\* createHmac('sha256', secret).update(payload).digest('hex'): the digest
\* stands for its 64 hex digits, and distinct (secret, payload) pairs have
\* distinct digests
HmacSha256Hex(secret, payload) == <<[key |-> secret, message |-> payload]>>

\* String.prototype.replace(pattern, ''): the first occurrence is removed
replace(str, pattern) ==
  IF \E i \in DOMAIN str : str[i] = pattern
  THEN LET i == CHOOSE i \in DOMAIN str :
                  str[i] = pattern /\ \A j \in 1..(i - 1) : str[j] # pattern
       IN  SubSeq(str, 1, i - 1) \o SubSeq(str, i + 1, Len(str))
  ELSE str

\* a verification that compares the header as it was sent
verifyWebhookSignature_NoStrip(payload, signature, secret) ==
  HmacSha256Hex(secret, payload) = signature

\* the server's verifyWebhookSignature
verifyWebhookSignature(payload, signature, secret) ==
  HmacSha256Hex(secret, payload) = replace(signature, Lit("sha256="))

\* the SDK's generateWebhookSignature and verifyWebhookSignature
generateWebhookSignature(payload, secret) == HmacSha256Hex(secret, payload)

StablePay_verifyWebhookSignature(payload, signature, secret) ==
  replace(signature, Lit("sha256=")) = generateWebhookSignature(payload, secret)

\* process.env.WEBHOOK_SECRET of the deployment, and the secret the server uses
WEBHOOK_SECRET == None
WebhookSecret == IF WEBHOOK_SECRET = None THEN "fallback-secret" ELSE WEBHOOK_SECRET[1]

\* deliverWebhook: the POST it makes and its result, true on a 2xx answer,
\* false otherwise; it never throws
deliverWebhook(webhookUrl, payload, secret, outcome) ==
  LET payloadString == stringify(payload)
      signature     == HmacSha256Hex(secret, payloadString)
  IN  [url |-> webhookUrl, signature |-> <<Lit("sha256=")>> \o signature, timestamp |-> now,
       event |-> payload.event, body |-> payloadString, delivered |-> (outcome = "2xx")]

\* the webhook block of the deposit and payout handlers: the session is looked
\* up under the transaction's quoteReference
notify(transaction, event, outcome) ==
  LET session == getSessionById(transaction.quoteReference)
  IN  IF session # None /\ session[1].callbackUrl # ""
      THEN Append(webhooks,
                  deliverWebhook(session[1].callbackUrl,
                                 [event |-> event, sessionId |-> transaction.quoteReference,
                                  transactionId |-> transaction.transactionId],
                                 WebhookSecret, outcome))
      ELSE webhooks

\* POST /api/v1/simulate/deposit
SimulateDeposit(transactionId, dep, outcome) ==
  /\ Idle
  /\ LET transaction == getTransactionById(transactionId)
     IN  IF dep = None
         THEN /\ resp' = Reply("simulate_deposit", 400, "transactionId, amount, and txHash are required")
              /\ UNCHANGED <<transactions, webhooks>>
         ELSE IF transaction = None
         THEN /\ resp' = Reply("simulate_deposit", 404, "Transaction not found")
              /\ UNCHANGED <<transactions, webhooks>>
         ELSE /\ transactions' = updateTransaction(transactionId,
                   [status |-> "deposit_confirmed", depositedAmount |-> dep[1].amount,
                    depositTxHash |-> dep[1].txHash, completedAt |-> now])
              /\ webhooks' = notify(transaction[1], "deposit.detected", outcome)
              /\ resp' = Reply("simulate_deposit", 200, "")
  /\ UNCHANGED <<webhookEvents, inflight, now, sessions, quotes, kycSessions, utrs>>

\* the payout handler without its status check
PayoutInitiate_NoStatusCheck(transactionId, amount, outcome) ==
  /\ Idle
  /\ LET transaction == getTransactionById(transactionId)
         utr         == Len(utrs) + 1
     IN  IF amount = None
         THEN /\ resp' = Reply("payout_initiate", 400,
                               "transactionId, channel, destination, and amount are required")
              /\ UNCHANGED <<transactions, utrs, webhooks>>
         ELSE IF transaction = None
         THEN /\ resp' = Reply("payout_initiate", 404, "Transaction not found")
              /\ UNCHANGED <<transactions, utrs, webhooks>>
         ELSE /\ Len(utrs) < MaxPayouts
              /\ utrs' = Append(utrs, transactionId)
              /\ transactions' = updateTransaction(transactionId,
                   [status |-> "completed", payoutAmount |-> amount[1],
                    payoutTxHash |-> utr, completedAt |-> now])
              /\ webhooks' = notify(transaction[1], "payout.settled", outcome)
              /\ resp' = Reply("payout_initiate", 200, "")
  /\ UNCHANGED <<webhookEvents, inflight, now, sessions, quotes, kycSessions>>

\* POST /api/v1/payout/initiate
PayoutInitiate(transactionId, amount, outcome) ==
  /\ Idle
  /\ LET transaction == getTransactionById(transactionId)
         utr         == Len(utrs) + 1
     IN  IF amount = None
         THEN /\ resp' = Reply("payout_initiate", 400,
                               "transactionId, channel, destination, and amount are required")
              /\ UNCHANGED <<transactions, utrs, webhooks>>
         ELSE IF transaction = None
         THEN /\ resp' = Reply("payout_initiate", 404, "Transaction not found")
              /\ UNCHANGED <<transactions, utrs, webhooks>>
         ELSE IF transaction[1].status # "deposit_confirmed"
         THEN /\ resp' = Reply("payout_initiate", 400, "Transaction not ready for payout")
              /\ UNCHANGED <<transactions, utrs, webhooks>>
         ELSE /\ Len(utrs) < MaxPayouts
              /\ utrs' = Append(utrs, transactionId)
              /\ transactions' = updateTransaction(transactionId,
                   [status |-> "completed", payoutAmount |-> amount[1],
                    payoutTxHash |-> utr, completedAt |-> now])
              /\ webhooks' = notify(transaction[1], "payout.settled", outcome)
              /\ resp' = Reply("payout_initiate", 200, "")
  /\ UNCHANGED <<webhookEvents, inflight, now, sessions, quotes, kycSessions>>

\* the handler up to the answer of storage.getTransactionById: the request is
\* suspended with the document it read
DepositRead(r, transactionId, dep) ==
  /\ inflight[r] = None
  /\ IF dep = None
     THEN /\ resp' = Reply("simulate_deposit", 400, "transactionId, amount, and txHash are required")
          /\ UNCHANGED inflight
     ELSE /\ inflight' = [inflight EXCEPT ![r] =
                            Some([op |-> "simulate_deposit", transactionId |-> transactionId,
                                  input |-> dep[1],
                                  transaction |-> getTransactionById(transactionId)])]
          /\ UNCHANGED resp
  /\ UNCHANGED <<webhookEvents, now, sessions, quotes, kycSessions, transactions, utrs, webhooks>>

\* the rest of the handler: it acts on the document it read
DepositWrite(r, outcome) ==
  /\ inflight[r] # None
  /\ inflight[r][1].op = "simulate_deposit"
  /\ LET req         == inflight[r][1]
         transaction == req.transaction
     IN  IF transaction = None
         THEN /\ resp' = Reply("simulate_deposit", 404, "Transaction not found")
              /\ UNCHANGED <<transactions, webhooks>>
         ELSE /\ transactions' = updateTransaction(req.transactionId,
                   [status |-> "deposit_confirmed", depositedAmount |-> req.input.amount,
                    depositTxHash |-> req.input.txHash, completedAt |-> now])
              /\ webhooks' = notify(transaction[1], "deposit.detected", outcome)
              /\ resp' = Reply("simulate_deposit", 200, "")
  /\ inflight' = [inflight EXCEPT ![r] = None]
  /\ UNCHANGED <<webhookEvents, now, sessions, quotes, kycSessions, utrs>>

PayoutRead(r, transactionId, amount) ==
  /\ inflight[r] = None
  /\ IF amount = None
     THEN /\ resp' = Reply("payout_initiate", 400,
                           "transactionId, channel, destination, and amount are required")
          /\ UNCHANGED inflight
     ELSE /\ inflight' = [inflight EXCEPT ![r] =
                            Some([op |-> "payout_initiate", transactionId |-> transactionId,
                                  input |-> amount[1],
                                  transaction |-> getTransactionById(transactionId)])]
          /\ UNCHANGED resp
  /\ UNCHANGED <<webhookEvents, now, sessions, quotes, kycSessions, transactions, utrs, webhooks>>

PayoutWrite(r, outcome) ==
  /\ inflight[r] # None
  /\ inflight[r][1].op = "payout_initiate"
  /\ LET req         == inflight[r][1]
         transaction == req.transaction
         utr         == Len(utrs) + 1
     IN  IF transaction = None
         THEN /\ resp' = Reply("payout_initiate", 404, "Transaction not found")
              /\ UNCHANGED <<transactions, utrs, webhooks>>
         ELSE IF transaction[1].status # "deposit_confirmed"
         THEN /\ resp' = Reply("payout_initiate", 400, "Transaction not ready for payout")
              /\ UNCHANGED <<transactions, utrs, webhooks>>
         ELSE /\ Len(utrs) < MaxPayouts
              /\ utrs' = Append(utrs, req.transactionId)
              /\ transactions' = updateTransaction(req.transactionId,
                   [status |-> "completed", payoutAmount |-> req.input,
                    payoutTxHash |-> utr, completedAt |-> now])
              /\ webhooks' = notify(transaction[1], "payout.settled", outcome)
              /\ resp' = Reply("payout_initiate", 200, "")
  /\ inflight' = [inflight EXCEPT ![r] = None]
  /\ UNCHANGED <<webhookEvents, now, sessions, quotes, kycSessions>>

(***************************************************************************)
(* The other verification methods                                          *)
(***************************************************************************)
\* a valid Cashfree answer that reports the subject as not verified
CashfreeRejected ==
  [kind |-> "ok", data |-> [status |-> Some("INVALID"), verified |-> Some(FALSE)]]
KycCashfreeOutcomes == CashfreeOutcomes \cup {CashfreeRejected}

\* what a Surepass call can do: no token configured, a network error, a body
\* that is not JSON, or a JSON answer (HTTP ok or not, success or not, with or
\* without a name)
SurepassOutcomes ==
  {[kind |-> "no_token"], [kind |-> "network_error"], [kind |-> "not_json"],
   [kind |-> "json", ok |-> TRUE, success |-> TRUE, name |-> Some("ASHA RAO")],
   [kind |-> "json", ok |-> TRUE, success |-> TRUE, name |-> None],
   [kind |-> "json", ok |-> TRUE, success |-> FALSE, name |-> None],
   [kind |-> "json", ok |-> FALSE, success |-> FALSE, name |-> None]}

\* an update that writes every flag, true for the verified method only
verificationUpdates_AllFlags(verificationType, verified, name) ==
  [aadhaarVerified |-> verified /\ verificationType = "aadhaar",
   panVerified |-> verified /\ verificationType = "pan",
   faceVerified |-> verified /\ verificationType = "face",
   upiVerified |-> verified /\ verificationType = "upi",
   bankVerified |-> verified /\ verificationType = "bank",
   nameMatchVerified |-> verified /\ verificationType = "name_match"]

\* the switch of storage.updateKycVerificationStatus: the fields it sets
verificationUpdates(verificationType, verified, name) ==
  LET named(field) == IF name # None THEN field :> name ELSE <<>>
  IN  CASE verificationType = "aadhaar" -> [aadhaarVerified |-> verified] @@ named("aadhaarName")
        [] verificationType = "pan" -> [panVerified |-> verified] @@ named("panName")
        [] verificationType = "face" -> [faceVerified |-> verified]
        [] verificationType = "upi" -> [upiVerified |-> verified] @@ named("upiName")
        [] verificationType = "bank" -> [bankVerified |-> verified] @@ named("bankName")
        [] verificationType = "name_match" ->
             [nameMatchVerified |-> verified] @@ named("verifiedName")
        [] OTHER -> <<>>

updateKycVerificationStatus(sessionId, verificationType, verified, name) ==
  IF sessionId \in DOMAIN kycSessions
  THEN updateKycSession(sessionId, verificationUpdates(verificationType, verified, name))
  ELSE kycSessions

\* what a verification handler does once it has found the session: the
\* kycSessions collection it leaves and its answer
Answer(kyc, op, code, error) == [kyc |-> kyc, resp |-> Reply(op, code, error)]

\* a PAN verification that also completes the session
PanVerifyFound_Completes(sessionId, cf) ==
  LET result == callCashfreeKycApi("pan", cf)
  IN  IF result.threw THEN Answer(kycSessions, "pan_verify", 500, "PAN verification failed")
      ELSE Answer(updateKycSession(sessionId, [status |-> "completed", panVerified |-> TRUE]),
                  "pan_verify", 200, "")

\* POST /api/v1/kyc/pan/verify, after the session lookup
PanVerifyFound(sessionId, cf) ==
  LET result == callCashfreeKycApi("pan", cf)
  IN  IF result.threw THEN Answer(kycSessions, "pan_verify", 500, "PAN verification failed")
      ELSE IF result.status = "SUCCESS"
      THEN Answer(updateKycVerificationStatus(sessionId, "pan", TRUE, Field(result.data, "name")),
                  "pan_verify", 200, "")
      ELSE Answer(kycSessions, "pan_verify", 400, "PAN verification failed")

\* the Surepass part of the UPI and bank handlers
SurepassVerifyFound(sessionId, verificationType, op, label, sp) ==
  IF sp.kind = "no_token" THEN Answer(kycSessions, op, 500, "Surepass API token not configured")
  ELSE IF sp.kind = "network_error" THEN Answer(kycSessions, op, 500, label \o " verification failed")
  ELSE IF sp.kind = "not_json" THEN Answer(kycSessions, op, 500, label \o " verification service error")
  ELSE IF sp.ok /\ sp.success
  THEN Answer(updateKycVerificationStatus(sessionId, verificationType, TRUE, sp.name), op, 200, "")
  ELSE Answer(kycSessions, op, 400, label \o " verification failed")

\* POST /api/v1/kyc/upi/verify, after the session lookup
UpiVerifyFound(sessionId, sp) == SurepassVerifyFound(sessionId, "upi", "upi_verify", "UPI", sp)

\* POST /api/v1/kyc/bank/verify, after the session lookup
BankVerifyFound(sessionId, sp) == SurepassVerifyFound(sessionId, "bank", "bank_verify", "Bank", sp)

\* POST /api/v1/kyc/face-liveness/verify, after the session lookup
FaceLivenessVerifyFound(sessionId, cf) ==
  LET result == callCashfreeKycApi("face-liveness", cf)
  IN  IF result.threw
      THEN Answer(kycSessions, "face_liveness_verify", 500, "Face liveness verification failed")
      ELSE IF result.status = "SUCCESS"
      THEN Answer(updateKycVerificationStatus(sessionId, "face_liveness", TRUE, None),
                  "face_liveness_verify", 200, "")
      ELSE Answer(kycSessions, "face_liveness_verify", 400, "Face liveness verification failed")

\* POST /api/v1/kyc/name-match/verify, after the session lookup
NameMatchVerifyFound(sessionId, name1, cf) ==
  LET result == callCashfreeKycApi("name-match", cf)
  IN  IF result.threw
      THEN Answer(kycSessions, "name_match_verify", 500, "Name match verification failed")
      ELSE IF result.status = "SUCCESS"
      THEN Answer(updateKycVerificationStatus(sessionId, "name_match", TRUE, Some(name1)),
                  "name_match_verify", 200, "")
      ELSE Answer(kycSessions, "name_match_verify", 400, "Name match verification failed")

\* a verification handler: required fields, session lookup, then the rest
VerifyHandler(op, sessionId, complete, missing, found) ==
  /\ Idle
  /\ LET out == IF ~complete THEN Answer(kycSessions, op, 400, missing)
                ELSE IF getKycSessionById(sessionId) = None
                THEN Answer(kycSessions, op, 404, "KYC session not found")
                ELSE found
     IN  /\ kycSessions' = out.kyc
         /\ resp' = out.resp
  /\ UNCHANGED <<webhookEvents, inflight, now, sessions, quotes, transactions, utrs, webhooks>>

PanVerify(sessionId, panNumber, cf) ==
  VerifyHandler("pan_verify", sessionId, panNumber # None,
                "sessionId and panNumber are required", PanVerifyFound(sessionId, cf))

UpiVerify(sessionId, vpa, sp) ==
  VerifyHandler("upi_verify", sessionId, vpa # None,
                "sessionId and vpa are required", UpiVerifyFound(sessionId, sp))

BankVerify(sessionId, account_number, sp) ==
  VerifyHandler("bank_verify", sessionId, account_number # None,
                "sessionId, account_number, and ifsc are required", BankVerifyFound(sessionId, sp))

FaceLivenessVerify(sessionId, image, cf) ==
  VerifyHandler("face_liveness_verify", sessionId, image # None,
                "sessionId and image are required", FaceLivenessVerifyFound(sessionId, cf))

NameMatchVerify(sessionId, name1, cf) ==
  VerifyHandler("name_match_verify", sessionId, name1 # None,
                "sessionId, name1, and name2 are required",
                NameMatchVerifyFound(sessionId, IF name1 = None THEN "" ELSE name1[1], cf))

\* POST /api/v1/kyc/aadhaar-okyc, after the session lookup: `session` is the
\* document the handler read
AadhaarOkycFound(sessionId, session, name, cf) ==
  LET result == callCashfreeKycApi("aadhaar-submit-otp", cf)
  IN  IF Field(session.verificationData, "aadhaarRefId") = None
      THEN Answer(kycSessions, "aadhaar_okyc", 400,
                  "No Aadhaar reference ID found. Please generate OTP first.")
      ELSE IF result.threw
      THEN Answer(kycSessions, "aadhaar_okyc", 500, "Aadhaar verification failed")
      ELSE Answer(updateKycSession(sessionId,
                    [status |-> "completed", aadhaarVerified |-> TRUE,
                     aadhaarName |-> OrElse(Field(result.data, "name"), name),
                     verifiedName |-> OrElse(Field(result.data, "name"), name),
                     verificationData |-> result.data]),
                  "aadhaar_okyc", 200, "")

\* the verification endpoints, by the flag they are about
Methods == {"aadhaar", "pan", "face", "upi", "bank", "name_match"}

MethodOp(method) ==
  CASE method = "aadhaar" -> "aadhaar_okyc"
    [] method = "pan" -> "pan_verify"
    [] method = "face" -> "face_liveness_verify"
    [] method = "upi" -> "upi_verify"
    [] method = "bank" -> "bank_verify"
    [] method = "name_match" -> "name_match_verify"

\* the handler of a method, after the session lookup
VerifyFound(method, sessionId, session, name, cf, sp) ==
  CASE method = "aadhaar" -> AadhaarOkycFound(sessionId, session, name, cf)
    [] method = "pan" -> PanVerifyFound(sessionId, cf)
    [] method = "face" -> FaceLivenessVerifyFound(sessionId, cf)
    [] method = "upi" -> UpiVerifyFound(sessionId, sp)
    [] method = "bank" -> BankVerifyFound(sessionId, sp)
    [] method = "name_match" ->
         NameMatchVerifyFound(sessionId, IF name = None THEN "" ELSE name[1], cf)

\* a verification handler up to the answer of storage.getKycSessionById: the
\* request is suspended with the document it read
VerifyRead(r, method, sessionId, name) ==
  /\ inflight[r] = None
  /\ inflight' = [inflight EXCEPT ![r] =
                    Some([op |-> MethodOp(method), method |-> method,
                          sessionId |-> sessionId, input |-> name,
                          session |-> getKycSessionById(sessionId)])]
  /\ UNCHANGED <<webhookEvents, now, sessions, quotes, kycSessions, transactions, utrs, webhooks, resp>>

\* the rest of the handler, writing the document it read back with its own
\* fields changed
VerifyWrite_StaleMerge(r, cf, sp) ==
  /\ inflight[r] # None
  /\ inflight[r][1].op \in {MethodOp(m) : m \in Methods}
  /\ LET req == inflight[r][1]
         id  == req.sessionId
         out == VerifyFound(req.method, id, req.session[1], req.input, cf, sp)
     IN  IF req.session = None
         THEN /\ resp' = Reply(req.op, 404, "KYC session not found")
              /\ UNCHANGED kycSessions
         ELSE /\ kycSessions' =
                   [kycSessions EXCEPT ![id] =
                      [f \in DOMAIN kycSessions[id] |->
                         IF out.kyc[id][f] # kycSessions[id][f]
                         THEN out.kyc[id][f] ELSE req.session[1][f]]]
              /\ resp' = out.resp
  /\ inflight' = [inflight EXCEPT ![r] = None]
  /\ UNCHANGED <<webhookEvents, now, sessions, quotes, transactions, utrs, webhooks>>

\* the rest of the handler: the provider call, then the storage update, which
\* reads the session again and $sets the method's own fields
VerifyWrite(r, cf, sp) ==
  /\ inflight[r] # None
  /\ inflight[r][1].op \in {MethodOp(m) : m \in Methods}
  /\ LET req == inflight[r][1]
         out == VerifyFound(req.method, req.sessionId, req.session[1], req.input, cf, sp)
     IN  IF req.session = None
         THEN /\ resp' = Reply(req.op, 404, "KYC session not found")
              /\ UNCHANGED kycSessions
         ELSE /\ kycSessions' = out.kyc
              /\ resp' = out.resp
  /\ inflight' = [inflight EXCEPT ![r] = None]
  /\ UNCHANGED <<webhookEvents, now, sessions, quotes, transactions, utrs, webhooks>>

Opt(S) == {None} \cup {Some(x) : x \in S}

(***************************************************************************)
(* Webhook signing and verification                                        *)
(***************************************************************************)
MaxWebhooks == 2

Secrets == {"fallback-secret", "whsec_live"}
HookPayloads ==
  {[event |-> e, sessionId |-> QuoteRef(1), transactionId |-> t] :
     e \in {"deposit.detected", "payout.settled"}, t \in TxIds}

\* a call of deliverWebhook
Deliver(webhookUrl, payload, secret, outcome) ==
  /\ Len(webhooks) < MaxWebhooks
  /\ webhooks' = Append(webhooks, deliverWebhook(webhookUrl, payload, secret, outcome))
  /\ UNCHANGED <<webhookEvents, inflight, now, sessions, quotes, kycSessions, transactions, utrs,
                 resp>>

\* POST /api/v1/webhook-test
WebhookTest(signature, timestamp, event, body) ==
  /\ Idle
  /\ IF signature = None \/ timestamp = None \/ event = None
     THEN resp' = Reply("webhook_test", 400, "Missing webhook headers")
     ELSE resp' = Reply("webhook_test", 200, "") @@
                  [signatureValid |->
                     verifyWebhookSignature(stringify(parse(body)), signature[1], WebhookSecret)]
  /\ UNCHANGED <<webhookEvents, inflight, now, sessions, quotes, kycSessions, transactions, utrs,
                 webhooks>>

(***************************************************************************)
(* Name matching (server/routes.ts)                                        *)
(***************************************************************************)
\* strings are sequences of characters
Str == Seq(STRING)

\* the names sent to the endpoint
NameInputs ==
  {<<"J", "o", "h", "n", " ", "D", "o", "e">>,
   <<"j", "o", "h", "n", " ", " ", " ", "d", "o", "e">>,
   <<"J", "a", "n", "e", " ", "S", "m", "i", "t", "h">>,
   <<" ", "J", "O", "H", "N", " ", "D", "O", "E", " ">>,
   <<"j", "o", "n", " ", "d", "o", "e">>,
   <<"d", "o", "e", " ", "j", "o", "h", "n">>,
   <<"j", "o", "h", "n">>,
   <<"j", " ", "d">>,
   <<" ">>,
   <<"j", "o">>,
   <<"o", "j">>,
   <<"J", "a", "n", "e", " ", " ", "S", "m", "i", "t", "h", " ">>,
   <<"j", "a", "n", "e", " ", "s", "m", "y", "t", "h">>,
   <<"j", "o", "h", "n", " ", "d", ".">>,
   <<"j", "0", "h", "n", " ", "d", "o", "e">>}

\* String.prototype.toLowerCase, on the letters that occur
toLowerCase[str \in Str] ==
  [i \in DOMAIN str |->
     CASE str[i] = "J" -> "j" [] str[i] = "O" -> "o" [] str[i] = "H" -> "h"
       [] str[i] = "N" -> "n" [] str[i] = "D" -> "d" [] str[i] = "E" -> "e"
       [] str[i] = "S" -> "s" [] OTHER -> str[i]]

\* String.prototype.trim
trim[str \in Str] ==
  IF \A i \in DOMAIN str : str[i] = " " THEN <<>>
  ELSE LET first == CHOOSE i \in DOMAIN str : str[i] # " " /\ \A j \in 1..(i - 1) : str[j] = " "
           last  == CHOOSE i \in DOMAIN str :
                      str[i] # " " /\ \A j \in (i + 1)..Len(str) : str[j] = " "
       IN  SubSeq(str, first, last)

\* replace(/\s+/g, ' '): every run of whitespace becomes one space
collapseSpaces[str \in Str] ==
  LET keep == {i \in DOMAIN str : ~(str[i] = " " /\ i > 1 /\ str[i - 1] = " ")}
  IN  [k \in 1..Cardinality(keep) |->
         str[CHOOSE i \in keep : Cardinality({j \in keep : j <= i}) = k]]

\* name.toLowerCase().trim().replace(/\s+/g, ' ') of the name-match endpoint
cleanName[name \in Str] == collapseSpaces[trim[toLowerCase[name]]]

Min3[a \in Int, b \in Int, c \in Int] ==
  IF a <= b /\ a <= c THEN a ELSE IF b <= c THEN b ELSE c

\* one row of the matrix of levenshteinDistance, cell by cell, from the row
\* above it: the row belongs to the character c of str2, column j to
\* str1[j], and cell j of the matrix is element j + 1 of the sequence
LevCells[row \in Seq(Nat), prev \in Seq(Nat), c \in STRING, str1 \in Str] ==
  IF Len(row) > Len(str1) THEN row
  ELSE LevCells[Append(row, IF c = str1[Len(row)] THEN prev[Len(row)]
                            ELSE Min3[prev[Len(row)] + 1, row[Len(row)] + 1,
                                      prev[Len(row) + 1] + 1]),
                prev, c, str1]

LevRow[prev \in Seq(Nat), c \in STRING, str1 \in Str] == LevCells[<<prev[1] + 1>>, prev, c, str1]

\* the last row of the matrix, given row i - 1 as prev
LevRows[prev \in Seq(Nat), i \in Nat, str1 \in Str, str2 \in Str] ==
  IF i > Len(str2) THEN prev
  ELSE LevRows[LevRow[prev, str2[i], str1], i + 1, str1, str2]

\* matrix[str2.length][str1.length]; row 0 is 0, 1, ..., str1.length
levenshteinDistance(str1, str2) ==
  LevRows[[j \in 1..(Len(str1) + 1) |-> j - 1], 1, str1, str2][Len(str1) + 1]

\* a similarity that divides by the shorter length
calculateNameSimilarity_MinLength(name1, name2) ==
  LET minLength == IF Len(name1) <= Len(name2) THEN Len(name1) ELSE Len(name2)
  IN  IF minLength = 0 THEN [num |-> 1, den |-> 1]
      ELSE [num |-> minLength - levenshteinDistance(name1, name2), den |-> minLength]

\* calculateNameSimilarity: the quotient (maxLength - distance) / maxLength,
\* kept as numerator and denominator
calculateNameSimilarity(name1, name2) ==
  LET maxLength == IF Len(name1) >= Len(name2) THEN Len(name1) ELSE Len(name2)
  IN  IF maxLength = 0 THEN [num |-> 1, den |-> 1]
      ELSE [num |-> maxLength - levenshteinDistance(name1, name2), den |-> maxLength]

\* POST /api/v1/kyc/name-match
NameMatch(name1, name2) ==
  /\ Idle
  /\ IF name1 = None \/ name2 = None \/ name1 = Some(<<>>) \/ name2 = Some(<<>>)
     THEN resp' = Reply("name_match", 400, "sessionId, name1, and name2 are required")
     ELSE LET similarity == calculateNameSimilarity(cleanName[name1[1]], cleanName[name2[1]])
          IN  resp' = Reply("name_match", 200, "") @@
                      [name1 |-> name1[1], name2 |-> name2[1], similarity |-> similarity,
                       isMatch |-> (5 * similarity.num > 4 * similarity.den)]
  /\ UNCHANGED <<webhookEvents, inflight, now, sessions, quotes, kycSessions, transactions, utrs,
                 webhooks>>

(***************************************************************************)
(* A quote request with the rate provider call in flight                   *)
(***************************************************************************)
\* what `await fetch(...)` and `await response.json()` of getUsdInrRate come
\* to: an outcome, or none for as long as the endpoint does not answer
FetchResults == Opt(FeeFxOutcomes)

\* GET /api/v1/quotes up to the rate provider call of calculateQuote
QuoteRead(r, sessionId, amountUsd, network, fx) ==
  /\ inflight[r] = None
  /\ LET session == getSessionById(sessionId)
     IN  IF amountUsd = None
         THEN /\ resp' = Reply("quotes", 400, "sessionId, asset, network, and amountUsd are required")
              /\ UNCHANGED inflight
         ELSE IF session = None \/ session[1].status # "active"
         THEN /\ resp' = Reply("quotes", 400, "Invalid or inactive session")
              /\ UNCHANGED inflight
         ELSE /\ Cardinality(DOMAIN quotes) + Cardinality({q \in Requests : inflight[q] # None})
                   < MaxQuotes
              /\ inflight' = [inflight EXCEPT ![r] =
                                Some([op |-> "quotes", sessionId |-> sessionId,
                                      amountUsd |-> amountUsd[1], network |-> network,
                                      fx |-> fx])]
              /\ UNCHANGED resp
  /\ UNCHANGED <<webhookEvents, now, sessions, quotes, kycSessions, transactions, utrs, webhooks>>

\* the rest of the handler, once the rate provider call has returned
QuoteWrite(r) ==
  /\ inflight[r] # None
  /\ inflight[r][1].op = "quotes"
  /\ inflight[r][1].fx # None
  /\ LET req == inflight[r][1]
     IN  quotes' = createQuote([QuoteInserts[req.amountUsd, req.fx[1], req.network]
                                  EXCEPT !.sessionId = req.sessionId,
                                         !.expiresAt = now + QUOTE_TTL_MIN])
  /\ resp' = Reply("quotes", 200, "")
  /\ inflight' = [inflight EXCEPT ![r] = None]
  /\ UNCHANGED <<webhookEvents, now, sessions, kycSessions, transactions, utrs, webhooks>>

(***************************************************************************)
(* Specifications                                                          *)
(***************************************************************************)
\* requests handled one at a time
Next ==
  \/ Tick
  \/ Respond
  \/ \E cb \in Opt({"https://partner.example/cb"}) : SessionCreate(cb)
  \/ \E s \in SessionIds, a \in Opt(AmountsUsd), n \in Networks, fx \in FxOutcomes :
       GetQuotes(s, a, n, fx)
  \/ \E s \in SessionIds, u \in Opt({"user_1"}) : KycSessionCreate(s, u)
  \/ \E k \in KycIds, a \in Opt({"123412341234"}), cf \in CashfreeOutcomes :
       AadhaarGenerateOtp(k, a, cf)
  \/ \E k \in KycIds, a \in Opt({"123412341234"}), n \in Opt(Names), cf \in CashfreeOutcomes :
       AadhaarOkyc(k, a, n, cf)
  \/ \E s \in SessionIds, q \in QuoteRefs, k \in KycIds, n \in Opt(Networks) :
       TransactionCreate(s, q, k, n)
  \/ \E t \in TxIds, d \in Opt(Deposits), o \in WebhookOutcomes : SimulateDeposit(t, d, o)
  \/ \E t \in TxIds, a \in Opt(PayoutAmounts), o \in WebhookOutcomes : PayoutInitiate(t, a, o)

Spec == Init /\ [][Next]_vars

\* deposit and payout requests interleave at their awaits; the requests that
\* lead up to a transaction are the successful ones
NextConc ==
  \/ Respond
  \/ \E cb \in {"https://partner.example/cb"} : SessionCreate(Some(cb))
  \/ \E s \in SessionIds, a \in AmountsUsd, n \in Networks, r \in LiveRates :
       GetQuotes(s, Some(a), n, [kind |-> "success", inr |-> r])
  \/ \E s \in SessionIds : KycSessionCreate(s, Some("user_1"))
  \/ \E k \in KycIds : AadhaarGenerateOtp(k, Some("123412341234"), CashfreeVerified)
  \/ \E k \in KycIds, n \in Names :
       AadhaarOkyc(k, Some("123412341234"), Some(n), CashfreeVerified)
  \/ \E s \in SessionIds, q \in QuoteRefs, k \in KycIds, n \in Networks :
       TransactionCreate(s, q, k, Some(n))
  \/ \E r \in Requests, t \in TxIds, d \in Opt(ConcDeposits) : DepositRead(r, t, d)
  \/ \E r \in Requests, o \in WebhookOutcomes : DepositWrite(r, o)
  \/ \E r \in Requests, t \in TxIds, a \in Opt(PayoutAmounts) : PayoutRead(r, t, a)
  \/ \E r \in Requests, o \in WebhookOutcomes : PayoutWrite(r, o)

SpecConc == Init /\ [][NextConc]_vars

\* the fee calculator over a range of amounts and rates, through GET /api/v1/quotes
NextFee ==
  \/ Respond
  \/ \E cb \in {"https://partner.example/cb"} : SessionCreate(Some(cb))
  \/ \E s \in SessionIds, a \in FeeAmounts, n \in Networks, fx \in FeeFxOutcomes :
       GetQuotes(s, Some(a), n, fx)

SpecFee == Init /\ [][NextFee]_vars

\* the verification handlers of one partner, one request at a time
NextKyc ==
  \/ Respond
  \/ \E cb \in {"https://partner.example/cb"} : SessionCreate(Some(cb))
  \/ \E s \in SessionIds, u \in Opt({"user_1"}) : KycSessionCreate(s, u)
  \/ \E k \in KycIds, cf \in CashfreeOutcomes : AadhaarGenerateOtp(k, Some("123412341234"), cf)
  \/ \E k \in KycIds, n \in Opt(Names), cf \in CashfreeOutcomes :
       AadhaarOkyc(k, Some("123412341234"), n, cf)
  \/ \E k \in KycIds, p \in Opt({"ABCDE1234F"}), cf \in KycCashfreeOutcomes : PanVerify(k, p, cf)
  \/ \E k \in KycIds, v \in Opt({"asha@upi"}), sp \in SurepassOutcomes : UpiVerify(k, v, sp)
  \/ \E k \in KycIds, a \in Opt({"000123456789"}), sp \in SurepassOutcomes : BankVerify(k, a, sp)
  \/ \E k \in KycIds, i \in Opt({"image_1"}), cf \in KycCashfreeOutcomes :
       FaceLivenessVerify(k, i, cf)
  \/ \E k \in KycIds, n \in Opt(Names), cf \in KycCashfreeOutcomes : NameMatchVerify(k, n, cf)

SpecKyc == Init /\ [][NextKyc]_vars

\* the methods and provider answers of the interleaved requests: one Cashfree
\* method with its own write, one Cashfree and one Surepass method through
\* updateKycVerificationStatus; a verifying answer and a failing one
ConcMethods == {"aadhaar", "pan", "upi"}
ConcCashfreeOutcomes == {CashfreeVerified, [kind |-> "network_error"]}
ConcSurepassOutcomes ==
  {[kind |-> "json", ok |-> TRUE, success |-> TRUE, name |-> Some("ASHA RAO")],
   [kind |-> "json", ok |-> TRUE, success |-> FALSE, name |-> None]}

\* verification requests of one KYC session interleave at their awaits
NextKycConc ==
  \/ Respond
  \/ \E cb \in {"https://partner.example/cb"} : SessionCreate(Some(cb))
  \/ \E s \in SessionIds : KycSessionCreate(s, Some("user_1"))
  \/ \E k \in KycIds : AadhaarGenerateOtp(k, Some("123412341234"), CashfreeVerified)
  \/ \E r \in Requests, m \in ConcMethods, k \in KycIds, n \in Names :
       VerifyRead(r, m, k, Some(n))
  \/ \E r \in Requests, cf \in ConcCashfreeOutcomes, sp \in ConcSurepassOutcomes :
       VerifyWrite(r, cf, sp)

SpecKycConc == Init /\ [][NextKycConc]_vars

\* deliveries signed with one of two secrets, and the receiving side's check of
\* what was sent, as sent or with another delivery's body
NextHook ==
  \/ Respond
  \/ \E p \in HookPayloads, sec \in Secrets, o \in WebhookOutcomes :
       Deliver("https://partner.example/cb", p, sec, o)
  \/ \E i \in DOMAIN webhooks, j \in DOMAIN webhooks, sig \in BOOLEAN :
       WebhookTest(IF sig THEN Some(webhooks[i].signature) ELSE None,
                   Some(webhooks[i].timestamp), Some(webhooks[i].event), webhooks[j].body)

SpecHook == Init /\ [][NextHook]_vars

\* the requests of the authenticated API, with inputs that pass validation
ApiRequests ==
  {[route |-> "session_create", callbackUrl |-> "https://partner.example/cb"]} \cup
  {[route |-> "quotes", sessionId |-> s, amountUsd |-> a, network |-> n,
    fx |-> [kind |-> "success", inr |-> r]] :
     s \in SessionIds, a \in AmountsUsd, n \in Networks, r \in LiveRates} \cup
  {[route |-> "kyc_session_create", sessionId |-> s, userId |-> "user_1"] : s \in SessionIds} \cup
  {[route |-> rt, sessionId |-> k] :
     rt \in {"aadhaar_generate_otp", "aadhaar_okyc", "pan_verify"}, k \in KycIds} \cup
  {[route |-> "transaction_create", sessionId |-> s, quoteId |-> q, kycSessionId |-> k,
    network |-> n] : s \in SessionIds, q \in QuoteRefs, k \in KycIds, n \in Networks} \cup
  {[route |-> "simulate_deposit", transactionId |-> t, deposit |-> d] :
     t \in TxIds, d \in ConcDeposits} \cup
  {[route |-> "payout_initiate", transactionId |-> t, amount |-> a] :
     t \in TxIds, a \in PayoutAmounts}

\* the route handler of a request, run for the partner the middleware found
Handle(partner, req) ==
  \/ req.route = "session_create" /\ SessionCreateAs(partner, Some(req.callbackUrl))
  \/ req.route = "quotes" /\ GetQuotes(req.sessionId, Some(req.amountUsd), req.network, req.fx)
  \/ req.route = "kyc_session_create"
     /\ KycSessionCreateAs(partner, req.sessionId, Some(req.userId))
  \/ req.route = "aadhaar_generate_otp"
     /\ AadhaarGenerateOtp(req.sessionId, Some("123412341234"), CashfreeVerified)
  \/ req.route = "aadhaar_okyc"
     /\ AadhaarOkyc(req.sessionId, Some("123412341234"), None, CashfreeVerified)
  \/ req.route = "pan_verify" /\ PanVerify(req.sessionId, Some("ABCDE1234F"), CashfreeVerified)
  \/ req.route = "transaction_create"
     /\ TransactionCreate(req.sessionId, req.quoteId, req.kycSessionId, Some(req.network))
  \/ req.route = "simulate_deposit"
     /\ SimulateDeposit(req.transactionId, Some(req.deposit), "2xx")
  \/ req.route = "payout_initiate" /\ PayoutInitiate(req.transactionId, Some(req.amount), "2xx")

\* a request to a route registered behind authenticateApiKey
Request(authHeader, req) ==
  authenticateApiKey(authHeader, Handle(reqPartner(authHeader), req))

\* requests of several partners, with and without valid keys, one at a time
RequestsTo(route) == {req \in ApiRequests : req.route = route}

NextAuth ==
  \/ Respond
  \/ \E h \in AuthHeaders, req \in RequestsTo("session_create") : Request(h, req)
  \/ \E h \in AuthHeaders, req \in RequestsTo("quotes") : Request(h, req)
  \/ \E h \in AuthHeaders, req \in RequestsTo("kyc_session_create") : Request(h, req)
  \/ \E h \in AuthHeaders, req \in RequestsTo("aadhaar_generate_otp") : Request(h, req)
  \/ \E h \in AuthHeaders, req \in RequestsTo("aadhaar_okyc") : Request(h, req)
  \/ \E h \in AuthHeaders, req \in RequestsTo("pan_verify") : Request(h, req)
  \/ \E h \in AuthHeaders, req \in RequestsTo("transaction_create") : Request(h, req)
  \/ \E h \in AuthHeaders, req \in RequestsTo("simulate_deposit") : Request(h, req)
  \/ \E h \in AuthHeaders, req \in RequestsTo("payout_initiate") : Request(h, req)

SpecAuth == Init /\ [][NextAuth]_vars

\* the name-match endpoint over pairs of names
NextName ==
  \/ Respond
  \/ \E a \in Opt(NameInputs), b \in Opt(NameInputs) : NameMatch(a, b)

SpecName == Init /\ [][NextName]_vars

\* quote requests whose rate provider call may stay unanswered; a
\* continuation runs once the call it awaits has returned
NextQuote ==
  \/ Respond
  \/ \E cb \in {"https://partner.example/cb"} : SessionCreate(Some(cb))
  \/ \E r \in Requests, s \in SessionIds, a \in Opt(FeeAmounts), n \in Networks, fx \in FetchResults :
       QuoteRead(r, s, a, n, fx)
  \/ \E r \in Requests : QuoteWrite(r)

SpecQuote ==
  Init /\ [][NextQuote]_vars /\ WF_vars(\E r \in Requests : QuoteWrite(r)) /\ WF_vars(Respond)

(***************************************************************************)
(* Properties                                                              *)
(***************************************************************************)
\* a field of a stored document, or None when the document has no such field
Stored(rec, name) == IF name \in DOMAIN rec THEN Some(rec[name]) ELSE None

\* the order of the transaction statuses
StatusRank(status) ==
  CASE status = "pending_deposit" -> 0
    [] status = "deposit_confirmed" -> 1
    [] status = "processing" -> 2
    [] status = "completed" -> 3
    [] OTHER -> 4

\* C1: under any sequence of deposit and payout requests a transaction's
\* stored status never moves backward in the order pending_deposit ->
\* deposit_confirmed -> processing -> completed.
C1_StatusNeverBackward ==
  [][\A t \in DOMAIN transactions :
       StatusRank(transactions'[t].status) >= StatusRank(transactions[t].status)]_vars

\* C2: a deposit request on a transaction whose status is not pending_deposit
\* is rejected and leaves status, depositedAmount and depositTxHash unchanged.
C2_DepositOnlyFromPending ==
  [][\A t \in TxIds, d \in Deposits, o \in WebhookOutcomes :
       (/\ t \in DOMAIN transactions
        /\ transactions[t].status # "pending_deposit"
        /\ SimulateDeposit(t, Some(d), o))
       => /\ resp'.code # 200
          /\ transactions'[t].status = transactions[t].status
          /\ Stored(transactions'[t], "depositedAmount") = Stored(transactions[t], "depositedAmount")
          /\ Stored(transactions'[t], "depositTxHash") = Stored(transactions[t], "depositTxHash")]_vars

\* C3: a payout request on a transaction whose status is not deposit_confirmed
\* fails with "Transaction not ready for payout", issues no settlement
\* reference and leaves the transaction (status, payoutAmount, payoutTxHash,
\* completedAt) unchanged.
C3_PayoutOnlyFromConfirmed ==
  [][\A t \in TxIds, a \in PayoutAmounts, o \in WebhookOutcomes :
       (/\ t \in DOMAIN transactions
        /\ transactions[t].status # "deposit_confirmed"
        /\ PayoutInitiate(t, Some(a), o))
       => /\ resp' = Reply("payout_initiate", 400, "Transaction not ready for payout")
          /\ utrs' = utrs
          /\ transactions'[t] = transactions[t]]_vars

\* a payout request was just refused while every transaction is completed
C3_Witness ==
  /\ resp = Reply("payout_initiate", 400, "Transaction not ready for payout")
  /\ DOMAIN transactions # {}
  /\ \A t \in DOMAIN transactions : transactions[t].status = "completed"

\* C4: transaction creation against a quote whose expiresAt is earlier than
\* the current time is rejected and creates no transaction.
C4_ExpiredQuoteRejected ==
  [][\A s \in SessionIds, q \in QuoteRefs, k \in KycIds, n \in Networks :
       (/\ q \in DOMAIN quotes
        /\ quotes[q].expiresAt < now
        /\ TransactionCreate(s, q, k, Some(n)))
       => /\ resp'.code = 400
          /\ transactions' = transactions]_vars

\* a creation was just refused for an expired quote: the session exists and
\* the KYC session is completed, or an earlier check would have answered
C4_Witness ==
  /\ resp = Reply("transaction_create", 400, "Quote has expired")
  /\ \E q \in DOMAIN quotes : quotes[q].expiresAt < now
  /\ \E k \in DOMAIN kycSessions : kycSessions[k].status = "completed"

\* C5: transaction creation succeeds only if the referenced KYC session has
\* status completed; with any other status the call is rejected and no
\* transaction is created.
C5_KycCompletedRequired ==
  [][\A s \in SessionIds, q \in QuoteRefs, k \in KycIds, n \in Networks :
       TransactionCreate(s, q, k, Some(n))
       => /\ resp'.code = 200
             => (k \in DOMAIN kycSessions /\ kycSessions[k].status = "completed")
          /\ (k \in DOMAIN kycSessions /\ kycSessions[k].status # "completed")
             => (resp'.code = 400 /\ transactions' = transactions)]_vars

\* a creation was just refused because the KYC session is not completed
C5_Witness ==
  /\ resp = Reply("transaction_create", 400, "KYC not completed")
  /\ \E k \in DOMAIN kycSessions : kycSessions[k].status = "initiated"
  /\ transactions = <<>>

\* C6: transaction creation succeeds only if the referenced session is
\* active: its stored status is active and the current time is not past its
\* expiresAt.
C6_ActiveSessionRequired ==
  [][\A s \in SessionIds, q \in QuoteRefs, k \in KycIds, n \in Networks :
       (TransactionCreate(s, q, k, Some(n)) /\ resp'.code = 200)
       => /\ s \in DOMAIN sessions
          /\ sessions[s].status = "active"
          /\ now <= sessions[s].expiresAt]_vars

\* C7: no quote is consumed by more than one transaction.
C7_QuoteConsumedOnce ==
  \A q \in DOMAIN quotes :
    Cardinality({t \in DOMAIN transactions : transactions[t].quoteReference = q}) <= 1

\* C8: of the payout requests processed concurrently for one transaction, one
\* issues a settlement reference only if the transaction still has the status
\* deposit_confirmed when it writes; otherwise it is rejected.
C8_PayoutCompareAndSwap ==
  [][\A r \in Requests, o \in WebhookOutcomes :
       (PayoutWrite(r, o) /\ utrs' # utrs)
       => transactions[inflight[r][1].transactionId].status = "deposit_confirmed"]_vars

\* the fee calculator's results for a stored quote's amount and rate
QuoteCalc(q) == calculateQuote(parseFloat(q.amount), parseFloat(q.fxRate), q.network)

\* C9: for every amount and rate the fee calculator returns grossINR = amountUsd
\* * fxRate, tds = 1% of grossINR, platformFee = 0.7% of grossINR, gst = 18% of
\* platformFee and netINR = grossINR - tds - platformFee - gst, every output
\* non-negative and netINR < grossINR.
C9_FeeFormulas ==
  \A id \in DOMAIN quotes :
    LET q           == quotes[id]
        out         == QuoteCalc(q)
        grossINR    == DecMul[q.amount, q.fxRate]
        tds         == DecMul[grossINR, TDS_RATE]
        platformFee == DecMul[grossINR, PLATFORM_FEE_RATE]
        gst         == DecMul[platformFee, GST_RATE]
        netINR      == DecSub[DecSub[DecSub[grossINR, tds], platformFee], gst]
    IN  /\ toString(out.grossInr) = grossINR
        /\ toString(out.tds) = tds
        /\ toString(out.platformFee) = platformFee
        /\ toString(out.gst) = gst
        /\ toString(out.netInr) = netINR
        /\ ~IsNegative[out.grossInr] /\ ~IsNegative[out.tds] /\ ~IsNegative[out.platformFee]
        /\ ~IsNegative[out.gst] /\ ~IsNegative[out.netInr]
        /\ DblLess(out.netInr, out.grossInr)

\* C10: every stored quote satisfies estimatedINR = grossINR - tdsAmount -
\* commission - gstAmount and grossINR = amount * fxRate.
C10_StoredQuoteIdentity ==
  \A id \in DOMAIN quotes :
    LET q == quotes[id]
    IN  /\ q.estimatedINR = DecSub[DecSub[DecSub[q.grossINR, q.tdsAmount], q.commission], q.gstAmount]
        /\ q.grossINR = DecMul[q.amount, q.fxRate]

Flags ==
  {"aadhaarVerified", "panVerified", "faceVerified", "upiVerified", "bankVerified",
   "nameMatchVerified"}

\* C12: once a verification flag of a KYC session is true it stays true,
\* whatever verification calls (successful or failed, same or other method)
\* follow.
C12_FlagsStayTrue ==
  [][\A k \in DOMAIN kycSessions, f \in Flags :
       kycSessions[k][f] => kycSessions'[k][f]]_vars

\* two flags are true and a later call for a third method has just failed
C12_Witness ==
  /\ resp = Reply("bank_verify", 400, "Bank verification failed")
  /\ \E k \in DOMAIN kycSessions :
       /\ kycSessions[k].panVerified
       /\ kycSessions[k].upiVerified
       /\ ~kycSessions[k].bankVerified

\* C14: a verification call that the provider answers successfully leaves the
\* method's flag true on the stored session, for each of the six methods, and
\* records the name the provider reported.
C14_SuccessSetsFlag ==
  [][\A k \in KycIds :
       /\ \A n \in Opt(Names), cf \in KycCashfreeOutcomes :
            (AadhaarOkyc(k, Some("123412341234"), n, cf) /\ resp'.code = 200)
            => kycSessions'[k].aadhaarVerified
       /\ \A cf \in KycCashfreeOutcomes :
            (PanVerify(k, Some("ABCDE1234F"), cf) /\ resp'.code = 200)
            => /\ kycSessions'[k].panVerified
               /\ (cf.kind = "ok" /\ Field(cf.data, "name") # None)
                  => kycSessions'[k].panName = Field(cf.data, "name")
       /\ \A sp \in SurepassOutcomes :
            (UpiVerify(k, Some("asha@upi"), sp) /\ resp'.code = 200)
            => /\ kycSessions'[k].upiVerified
               /\ sp.name # None => kycSessions'[k].upiName = sp.name
       /\ \A sp \in SurepassOutcomes :
            (BankVerify(k, Some("000123456789"), sp) /\ resp'.code = 200)
            => /\ kycSessions'[k].bankVerified
               /\ sp.name # None => kycSessions'[k].bankName = sp.name
       /\ \A n \in Names, cf \in KycCashfreeOutcomes :
            (NameMatchVerify(k, Some(n), cf) /\ resp'.code = 200)
            => kycSessions'[k].nameMatchVerified
       /\ \A cf \in KycCashfreeOutcomes :
            (FaceLivenessVerify(k, Some("image_1"), cf) /\ resp'.code = 200)
            => kycSessions'[k].faceVerified]_vars

\* C15: a verification call made without provider credentials, or answered
\* by the provider with verified = false, is reported as unsuccessful and
\* sets no flag.
C15_NoFabricatedSuccess ==
  [][\A k \in KycIds, cf \in {[kind |-> "no_credentials"], CashfreeRejected} :
       /\ PanVerify(k, Some("ABCDE1234F"), cf)
          => (resp'.code # 200 /\ kycSessions' = kycSessions)
       /\ \A n \in Names :
            NameMatchVerify(k, Some(n), cf)
            => (resp'.code # 200 /\ kycSessions' = kycSessions)
       /\ FaceLivenessVerify(k, Some("image_1"), cf)
          => (resp'.code # 200 /\ kycSessions' = kycSessions)
       /\ \A n \in Opt(Names) :
            AadhaarOkyc(k, Some("123412341234"), n, cf)
            => (resp'.code # 200 /\ kycSessions' = kycSessions)]_vars

\* the flag and the name field a method's endpoint is about
OwnFlag(method) ==
  CASE method = "aadhaar" -> "aadhaarVerified"
    [] method = "pan" -> "panVerified"
    [] method = "face" -> "faceVerified"
    [] method = "upi" -> "upiVerified"
    [] method = "bank" -> "bankVerified"
    [] method = "name_match" -> "nameMatchVerified"

NamedMethods == {"aadhaar", "pan", "upi", "bank"}

OwnName(method) ==
  CASE method = "aadhaar" -> "aadhaarName"
    [] method = "pan" -> "panName"
    [] method = "upi" -> "upiName"
    [] method = "bank" -> "bankName"

C16_WebhookAttempted ==
  [][\A t \in TxIds, o \in WebhookOutcomes :
       /\ \A d \in Deposits :
            (SimulateDeposit(t, Some(d), o) /\ resp'.code = 200)
            => /\ Len(webhooks') = Len(webhooks) + 1
               /\ webhooks'[Len(webhooks')].event = "deposit.detected"
               /\ webhooks'[Len(webhooks')].url = sessions[transactions[t].sessionId].callbackUrl
       /\ \A a \in PayoutAmounts :
            (PayoutInitiate(t, Some(a), o) /\ resp'.code = 200)
            => /\ Len(webhooks') = Len(webhooks) + 1
               /\ webhooks'[Len(webhooks')].event = "payout.settled"
               /\ webhooks'[Len(webhooks')].url = sessions[transactions[t].sessionId].callbackUrl]_vars

C19_FailedDeliveryRetried ==
  \A i \in DOMAIN webhooks :
    ~webhooks[i].delivered
    => \E e \in DOMAIN webhookEvents :
         /\ webhookEvents[e].attempts >= 1
         /\ webhookEvents[e].attempts <= webhookEvents[e].maxAttempts
         /\ \/ webhookEvents[e].status = "retrying" /\ webhookEvents[e].nextRetryAt # None
            \/ /\ webhookEvents[e].status = "failed"
               /\ webhookEvents[e].attempts = webhookEvents[e].maxAttempts

\* C20: a session or transaction past its expiresAt is treated as expired by
\* the next request that reads it: a quote request or a KYC-session creation
\* against such a session is rejected, and a deposit on a pending_deposit
\* transaction past its expiresAt does not make it deposit_confirmed.
C20_ExpiryOnRead ==
  [][/\ \A s \in SessionIds, a \in AmountsUsd, n \in Networks, fx \in FxOutcomes :
          (GetQuotes(s, Some(a), n, fx) /\ resp'.code = 200) => now <= sessions[s].expiresAt
     /\ \A s \in SessionIds :
          (KycSessionCreate(s, Some("user_1")) /\ resp'.code = 200)
          => now <= sessions[s].expiresAt
     /\ \A t \in TxIds, d \in Deposits, o \in WebhookOutcomes :
          (/\ SimulateDeposit(t, Some(d), o)
           /\ t \in DOMAIN transactions
           /\ transactions[t].status = "pending_deposit"
           /\ now > transactions[t].expiresAt)
          => transactions'[t].status # "deposit_confirmed"]_vars

\* C22: a transaction is paid out at most once: once a settlement reference
\* is written to payoutTxHash, payoutTxHash and payoutAmount never change.
C22_PayoutOnce ==
  [][\A t \in DOMAIN transactions :
       Stored(transactions[t], "payoutTxHash") # None
       => /\ Stored(transactions'[t], "payoutTxHash") = Stored(transactions[t], "payoutTxHash")
          /\ Stored(transactions'[t], "payoutAmount") = Stored(transactions[t], "payoutAmount")]_vars

\* C23: a transaction's completedAt is set if and only if its status is
\* completed, and a completed transaction has depositTxHash, depositedAmount
\* and payoutTxHash set.
C23_CompletedAtIffCompleted ==
  \A t \in DOMAIN transactions :
    /\ (Stored(transactions[t], "completedAt") # None) <=> (transactions[t].status = "completed")
    /\ transactions[t].status = "completed"
       => /\ Stored(transactions[t], "depositTxHash") # None
          /\ Stored(transactions[t], "depositedAmount") # None
          /\ Stored(transactions[t], "payoutTxHash") # None

\* C24: a KYC session's status is completed if and only if its aadhaarVerified
\* flag is true; the status changes only in a successful Aadhaar OTP
\* verification, never in a verification of another method, and a completed
\* session stays completed.
C24_CompletedIffAadhaar ==
  [][\A k \in DOMAIN kycSessions :
       /\ (kycSessions[k].status = "completed") <=> kycSessions[k].aadhaarVerified
       /\ (kycSessions'[k].status = "completed") <=> kycSessions'[k].aadhaarVerified
       /\ kycSessions[k].status = "completed" => kycSessions'[k].status = "completed"
       /\ kycSessions'[k].status # kycSessions[k].status
          => \E n \in Opt(Names), cf \in CashfreeOutcomes :
               AadhaarOkyc(k, Some("123412341234"), n, cf) /\ resp'.code = 200]_vars

\* one session is completed by Aadhaar with PAN and UPI verified as well, and
\* a PAN verification has just succeeded
C24_Witness ==
  /\ resp = Reply("pan_verify", 200, "")
  /\ \E k \in DOMAIN kycSessions :
       /\ kycSessions[k].status = "completed"
       /\ kycSessions[k].aadhaarVerified
       /\ kycSessions[k].panVerified
       /\ kycSessions[k].upiVerified

\* C25: a KYC session leaves the status initiated on its first verification
\* attempt: no session in status initiated has a true verification flag or a
\* recorded attempt.
C25_InProgressOnFirstAttempt ==
  \A k \in DOMAIN kycSessions :
    kycSessions[k].status = "initiated"
    => /\ \A f \in Flags : ~kycSessions[k][f]
       /\ kycSessions[k].verificationData = <<>>

\* the provider answers that are failures: a non-2xx status, a body that is
\* not JSON, a call that throws
CashfreeFailures == {[kind |-> "http_error"], [kind |-> "not_json"], [kind |-> "network_error"]}
SurepassFailures ==
  {sp \in SurepassOutcomes : sp.kind \in {"network_error", "not_json"} \/ (sp.kind = "json" /\ ~sp.ok)}

\* C26: when the KYC provider answers with a non-2xx status or a body that is
\* not JSON, or the call throws, the verification endpoint answers
\* unsuccessfully and the KYC session is exactly what it was.
C26_ProviderFailureChangesNothing ==
  [][\A k \in KycIds :
       /\ \A cf \in CashfreeFailures :
            /\ AadhaarGenerateOtp(k, Some("123412341234"), cf)
               => (resp'.code # 200 /\ kycSessions' = kycSessions)
            /\ \A n \in Opt(Names) :
                 AadhaarOkyc(k, Some("123412341234"), n, cf)
                 => (resp'.code # 200 /\ kycSessions' = kycSessions)
            /\ PanVerify(k, Some("ABCDE1234F"), cf)
               => (resp'.code # 200 /\ kycSessions' = kycSessions)
            /\ FaceLivenessVerify(k, Some("image_1"), cf)
               => (resp'.code # 200 /\ kycSessions' = kycSessions)
            /\ \A n \in Names :
                 NameMatchVerify(k, Some(n), cf)
                 => (resp'.code # 200 /\ kycSessions' = kycSessions)
       /\ \A sp \in SurepassFailures :
            /\ UpiVerify(k, Some("asha@upi"), sp)
               => (resp'.code # 200 /\ kycSessions' = kycSessions)
            /\ BankVerify(k, Some("000123456789"), sp)
               => (resp'.code # 200 /\ kycSessions' = kycSessions)]_vars

\* an Aadhaar verification whose OTP had been generated has just failed at the
\* provider, on a session that already has a verified PAN
C26_Witness ==
  /\ resp = Reply("aadhaar_okyc", 500, "Aadhaar verification failed")
  /\ \E k \in DOMAIN kycSessions :
       /\ Field(kycSessions[k].verificationData, "aadhaarRefId") # None
       /\ kycSessions[k].panVerified
       /\ ~kycSessions[k].aadhaarVerified

\* C27: an Aadhaar OTP verification succeeds only on a session that holds the
\* reference of an OTP generation which no earlier successful verification
\* has used, and it discards that reference.
C27_OtpUsedOnce ==
  [][\A r \in Requests, cf \in ConcCashfreeOutcomes, sp \in ConcSurepassOutcomes :
       (/\ inflight[r] # None
        /\ inflight[r][1].method = "aadhaar"
        /\ VerifyWrite(r, cf, sp)
        /\ resp'.code = 200)
       => LET k == inflight[r][1].sessionId
          IN  /\ Field(kycSessions[k].verificationData, "aadhaarRefId") # None
              /\ Field(kycSessions'[k].verificationData, "aadhaarRefId") = None]_vars

\* the records the API stores
stored == <<sessions, quotes, kycSessions, transactions, utrs, webhooks, webhookEvents>>

\* C21: a request to an operation behind the authentication whose Bearer key
\* is missing, or is not the apiKey of a stored partner with status active,
\* is answered 401 and changes no stored record.
C21_AuthRequired ==
  [][\A h \in AuthHeaders, req \in ApiRequests :
       (/\ ~\E p \in Partners : p.status = "active" /\ h = Some(<<"Bearer ", p.apiKey>>)
        /\ Request(h, req))
       => (resp'.code = 401 /\ stored' = stored)]_vars

\* a request with a key that is not an active partner's has just been
\* answered 401, with a session and a transaction of an active partner stored
C21_Witness ==
  /\ resp = Reply("auth", 401, "Invalid or inactive API key")
  /\ sessions # <<>>
  /\ transactions # <<>>

\* C28: a request authenticated as one partner that references a session, a
\* KYC session or a transaction of another partner is rejected and changes
\* nothing.
C28_PartnerIsolation ==
  [][\A h \in AuthHeaders, req \in ApiRequests :
       (/\ h # None
        /\ \E p \in Partners :
             /\ p.status = "active"
             /\ h = Some(<<"Bearer ", p.apiKey>>)
             /\ \/ /\ req.route \in {"quotes", "kyc_session_create", "transaction_create"}
                   /\ req.sessionId \in DOMAIN sessions
                   /\ sessions[req.sessionId].partnerId # p.partnerId
                \/ /\ req.route \in {"aadhaar_generate_otp", "aadhaar_okyc", "pan_verify"}
                   /\ req.sessionId \in DOMAIN kycSessions
                   /\ kycSessions[req.sessionId].partnerId # p.partnerId
                \/ /\ req.route \in {"simulate_deposit", "payout_initiate"}
                   /\ req.transactionId \in DOMAIN transactions
                   /\ sessions[transactions[req.transactionId].sessionId].partnerId
                      # p.partnerId
        /\ Request(h, req))
       => (resp'.code # 200 /\ stored' = stored)]_vars

\* C29: the similarity the name-match endpoint answers is symmetric, lies in
\* [0, 1] and is 1 exactly when the normalized names are equal; for
\* "John Doe" and "john   doe" it is 1, for "John Doe" and "Jane Smith" it is
\* below 0.5.
C29_NameSimilarity ==
  (resp.op = "name_match" /\ resp.code = 200)
  => LET sim == resp.similarity
         a   == resp.name1
         b   == resp.name2
     IN  /\ sim.den > 0 /\ 0 <= sim.num /\ sim.num <= sim.den
         /\ sim = calculateNameSimilarity(cleanName[b], cleanName[a])
         /\ (sim.num = sim.den) <=> (cleanName[a] = cleanName[b])
         /\ (a = <<"J", "o", "h", "n", " ", "D", "o", "e">> /\ b = <<"j", "o", "h", "n", " ", " ", " ", "d", "o", "e">>)
            => sim.num = sim.den
         /\ (a = <<"J", "o", "h", "n", " ", "D", "o", "e">> /\ b = <<"J", "a", "n", "e", " ", "S", "m", "i", "t", "h">>)
            => 2 * sim.num < sim.den

\* the endpoint has just compared "John Doe" with "Jane Smith"
C29_Witness ==
  /\ resp.op = "name_match"
  /\ resp.code = 200
  /\ resp.name1 = <<"J", "o", "h", "n", " ", "D", "o", "e">>
  /\ resp.name2 = <<"J", "a", "n", "e", " ", "S", "m", "i", "t", "h">>
  /\ resp.similarity.num > 0
  /\ ~resp.isMatch

\* C30: a quote request that has reached the rate provider call is eventually
\* answered, whether or not the FX endpoint ever answers.
C30_QuoteAnswered ==
  \A r \in Requests : (inflight[r] # None) ~> (inflight[r] = None)
====
